---- MODULE Spec2Model ----
(***************************************************************************)
(* Model of the NIFTY50 options trading service: the State Manager         *)
(* (state_manager.py), the Scheduler (scheduler.py), the Execution Engine  *)
(* (execution_engine.py) and the control API (app_backend.py).             *)
(*                                                                         *)
(* Concurrency model.  The service runs on one asyncio event loop: the     *)
(* code between two suspension points (a network call, a sleep, a wait for *)
(* a task) runs atomically, and each action below is one such segment.     *)
(* The State Manager is additionally documented as thread safe; the        *)
(* specification SpecLogError runs its log_error from several threads.     *)
(*                                                                         *)
(* Names.  execution_engine.py and scheduler.py use SignalType,            *)
(* position_to_dict, trade_to_dict and signal_to_dict, which live in the   *)
(* domain model module (not part of the examined sources) and are not      *)
(* imported by these two files.  The model binds the names to the domain   *)
(* model's definitions as spec.md section 4.2 describes them.  With the    *)
(* names unbound, scheduler.py line 172 raises NameError for every signal, *)
(* which _run_strategy's except clause handles exactly as the outcome      *)
(* "raise" of SchedDataReturns: the behaviours of that reading are the     *)
(* behaviours of this model in which no signal is ever acted on.           *)
(*                                                                         *)
(* Signals.  The scheduler's cycle takes the signal that the analysis      *)
(* hands to execute_signal as an input (SchedDataReturns).  SpecSignal     *)
(* models generate_trade_signal itself: as written it returns no signal    *)
(* for any series, so the behaviours of the code as a whole are again      *)
(* those of this model in which no signal is ever acted on.                *)
(*                                                                         *)
(* Time is the time of day in seconds; the clock advances in steps of      *)
(* TickSeconds.  NoTime stands for Python's None in an Optional[datetime]. *)
(***************************************************************************)
EXTENDS Integers, Sequences, FiniteSets, TLC

\* ---------------------------------------------------------------- bounds
NThreads == 3
MaxCalls == 2
MaxReq == 2
MaxTasks == 2
MaxPos == 2
MaxTicks == 3
MaxRequests == 3
MaxSkipped == 1
MaxWatched == 2
MaxAlerts == 6
MaxSockets == 3
MaxBroadcasts == 2
MaxApiReqs == 2
MaxMonitors == 2
MaxCallers == 2
MaxKeys == 2
MaxRows == 2
MaxOps == 3
MaxStrikeSteps == 40
MaxExitSteps == 10
MaxCandleSteps == 31
MaxWindowDays == 16
MaxPriceSteps == 12

\* ------------------------------------------------------- program constants
NoTime == -1
\* the clock's step: the shortest sleep of the scheduler loop
TickSeconds == 30
TradingStart == 33300
TradingEnd == 55800
MarketOpenMinutes == 555
IdleSleep == 60
DueSleep == 30
MonitorSleep == 60
SlippagePerMille == 1

Threads == 1..NThreads
Reqs == 1..MaxReq
Tasks == 1..MaxTasks
Broadcasts == 1..MaxBroadcasts
ApiReqs == 1..MaxApiReqs
Callers == 1..MaxCallers
CacheKeys == 1..MaxKeys

VARIABLES settings, now, ticks, sm, disk, thr, sched, stask, eng, mtask, h,
          last, lm, cm, api, de, ad, smc, pf

\* the trading core (State Manager, Scheduler, Execution Engine, control API)
core == <<settings, now, ticks, sm, disk, thr, sched, stask, eng, mtask, h,
          last>>

\* the components around it: the Live Monitor, the WebSocket
\* ConnectionManager, the back-test and live-monitoring endpoints, the
\* DataEngine with its file cache, the two brokerage adapters, a direct
\* caller of the State Manager and a direct caller of the pure functions
periphery == <<lm, cm, api, de, ad, smc, pf>>

\* what an action of one component leaves alone
beside_lm == <<core, cm, api, de, ad, smc, pf>>
beside_cm == <<core, lm, api, de, ad, smc, pf>>
beside_api == <<core, lm, cm, de, ad, smc, pf>>
beside_de == <<core, lm, cm, api, ad, smc, pf>>
beside_ad == <<core, lm, cm, api, de, smc, pf>>
beside_sm == <<settings, ticks, thr, sched, stask, eng, mtask, h, last,
               lm, cm, api, de, ad, pf>>

vars == <<core, periphery>>

\* ================================================================== values

\* a TradeSignal as the Execution Engine reads it; NoSignal stands for None
NoSignal == [ entry_price |-> 0, quantity |-> 0 ]

\* generate_trade_signal builds every signal with quantity 1
SignalQuantity == 1

\* outcomes of a brokerage call at the adapter boundary
BrokerOutcomes == { "ok", "fail", "raise" }

\* ============================================================ State Manager

default_state ==
  [ running |-> FALSE,
    last_run_time |-> NoTime,
    last_candle_time |-> NoTime,
    open_positions |-> << >>,
    today_trades |-> << >>,
    total_trades |-> 0,
    total_pnl |-> 0,
    win_rate |-> <<0, 1>>,
    last_signal_time |-> NoTime,
    last_signal |-> NoSignal,
    strategy_start_time |-> NoTime,
    last_state_update |-> NoTime,
    error_count |-> 0,
    last_error |-> "None" ]

\* safe_json_save: the document reaches the disk iff the write succeeds
safe_json_save(doc, ok) == IF ok THEN doc ELSE disk

\* variant of update_state that merges without stamping
update_state_unstamped(doc, updates) ==
  [ k \in DOMAIN doc \cup DOMAIN updates |->
      IF k \in DOMAIN updates THEN updates[k] ELSE doc[k] ]

\* update_state: merge, stamp last_state_update (under the lock)
update_state(doc, updates) ==
  [ k \in DOMAIN doc \cup DOMAIN updates |->
      IF k = "last_state_update" THEN now
      ELSE IF k \in DOMAIN updates THEN updates[k] ELSE doc[k] ]

set_running(doc, running) ==
  update_state(doc, [ running |-> running,
                      strategy_start_time |-> IF running THEN now ELSE NoTime ])

update_last_run(doc, t) == update_state(doc, [ last_run_time |-> t ])

update_last_candle(doc, t) == update_state(doc, [ last_candle_time |-> t ])

update_signal(doc, sig) ==
  update_state(doc, [ last_signal_time |-> now, last_signal |-> sig ])

\* log_error's argument is built from a count read BEFORE update_state takes
\* the lock; `seen` is that count
log_error_updates(seen, msg) ==
  [ error_count |-> seen + 1, last_error |-> msg ]

\* variant of log_error that records the message without counting it
log_error_uncounted(doc, msg) == update_state(doc, [ last_error |-> msg ])

log_error(doc, msg) == update_state(doc, log_error_updates(doc.error_count, msg))

add_position(doc, p) ==
  [ doc EXCEPT !.open_positions = Append(@, p) ]

remove_position(doc, id) ==
  [ doc EXCEPT !.open_positions = SelectSeq(@, LAMBDA p : p.id # id) ]

RECURSIVE CountWins(_)
CountWins(ts) ==
  IF ts = << >> THEN 0
  ELSE (IF Head(ts).pnl > 0 THEN 1 ELSE 0) + CountWins(Tail(ts))

\* variant of add_trade that stamps the document as update_state does
add_trade_stamped(doc, t) ==
  [ doc EXCEPT !.today_trades = Append(@, t),
               !.total_trades = @ + 1,
               !.total_pnl = @ + t.pnl,
               !.win_rate = <<CountWins(Append(doc.today_trades, t)) * 100,
                              doc.total_trades + 1>>,
               !.last_state_update = now ]

\* add_trade; the float win_rate is kept exactly, as <<numerator, denominator>>
add_trade(doc, t) ==
  LET trades == Append(doc.today_trades, t)
      total == doc.total_trades + 1
  IN [ doc EXCEPT !.today_trades = trades,
                  !.total_trades = total,
                  !.total_pnl = @ + t.pnl,
                  !.win_rate = IF total > 0 THEN <<CountWins(trades) * 100, total>>
                               ELSE @ ]

\* ================================================================ utilities

\* variant of is_trading_hours without the closing bound
is_trading_hours_no_end(current, start, end) == start <= current

\* is_trading_hours: start <= current <= end, both ends inclusive
is_trading_hours(current, start, end) == start <= current /\ current <= end

\* get_next_candle_time: hour and minute of current_time, seconds dropped
get_next_candle_time(current, candle_minutes) ==
  LET minutes_since_market_open == (current \div 60) - MarketOpenMinutes
      next_candle_minutes ==
        ((minutes_since_market_open \div candle_minutes) + 1) * candle_minutes
  IN (MarketOpenMinutes + next_candle_minutes) * 60

\* ========================================================= Execution Engine

\* models.position_to_dict / trade_to_dict: field copies with the enum side
\* replaced by its value
SideValue(side) == IF side = "LONG" THEN "long" ELSE "short"

position_to_dict(p) ==
  [ id |-> p.id, side |-> SideValue(p.side), quantity |-> p.quantity,
    entry_price |-> p.entry_price, current_price |-> p.current_price ]

trade_to_dict(t) ==
  [ position |-> t.position, side |-> SideValue(t.side), quantity |-> t.quantity,
    entry_price |-> t.entry_price, exit_price |-> t.exit_price,
    pnl |-> t.pnl, reason |-> t.reason ]

calculate_position_pnl(entry_price, current_price, quantity, side) ==
  IF side = "long" THEN (current_price - entry_price) * quantity
  ELSE (entry_price - current_price) * quantity

\* _create_position; the uuid is the number of positions created so far + 1
create_position(e, sig, filled_price) ==
  [ id |-> e.npos + 1, side |-> "LONG", quantity |-> sig.quantity,
    entry_price |-> filled_price, current_price |-> filled_price ]

\* _create_trade; `position` records the position the trade was built from
create_trade(p, exit_price, reason) ==
  [ position |-> p.id, side |-> p.side, quantity |-> p.quantity,
    entry_price |-> p.entry_price, exit_price |-> exit_price,
    pnl |-> calculate_position_pnl(p.entry_price, exit_price, p.quantity,
                                   SideValue(p.side)),
    reason |-> reason ]

ActiveIds(e) == { e.active_positions[i].id : i \in 1..Len(e.active_positions) }

\* _has_traded_today
has_traded_today(doc) == Len(doc.today_trades) > 0

\* _place_order, dry-run branch: fill at entry_price * (1 + slippage)
dry_run_fill(sig) == sig.entry_price + (sig.entry_price * SlippagePerMille) \div 1000

\* _place_order, brokerage branch: response.filled_price or signal.entry_price
live_fill(sig, fill) == IF fill # 0 THEN fill ELSE sig.entry_price

\* variant of execute_signal that registers the position in the engine only
open_position_unpublished(e, doc, sig, filled_price) ==
  LET p == create_position(e, sig, filled_price)
  IN [ eng |-> [ e EXCEPT !.active_positions = Append(@, p), !.npos = @ + 1 ],
       sm |-> doc ]

\* execute_signal lines 85-93: register the position in the engine and the
\* State Manager
open_position(e, doc, sig, filled_price) ==
  LET p == create_position(e, sig, filled_price)
  IN [ eng |-> [ e EXCEPT !.active_positions = Append(@, p), !.npos = @ + 1 ],
       sm |-> add_position(doc, position_to_dict(p)) ]

\* _exit_position after a successful exit order (lines 152-163); deleting a
\* position that is no longer active raises KeyError, which the handler's
\* except clause swallows after the trade was appended to the history
exit_position(e, doc, p, reason, exit_price) ==
  LET trade == create_trade(p, exit_price, reason)
      e1 == [ e EXCEPT !.trades_history = Append(@, trade) ]
  IN IF p.id \notin ActiveIds(e)
     THEN [ eng |-> e1, sm |-> doc ]
     ELSE [ eng |-> [ e1 EXCEPT !.active_positions =
                                  SelectSeq(@, LAMBDA q : q.id # p.id) ],
            sm |-> add_trade(remove_position(doc, p.id), trade_to_dict(trade)) ]

\* force_close_all's loop from a given point: in dry_run every exit order is
\* simulated without suspending, otherwise the loop suspends on the
\* brokerage call for the first remaining position
RECURSIVE force_close_loop(_, _, _)
force_close_loop(e, doc, list) ==
  IF list = << >> THEN [ eng |-> e, sm |-> doc, rest |-> << >> ]
  ELSE IF settings.mode = "dry_run"
       THEN LET r == exit_position(e, doc, Head(list), "force_close",
                                   Head(list).current_price)
            IN force_close_loop(r.eng, r.sm, Tail(list))
       ELSE [ eng |-> e, sm |-> doc, rest |-> list ]

\* models.signal_to_dict: field copy
signal_to_dict(sig) == [ entry_price |-> sig.entry_price, quantity |-> sig.quantity ]

\* _is_trading_hours of the scheduler and of the engine: the settings' bounds
\* formatted as HH:MM and parsed back
in_trading_hours == is_trading_hours(now, TradingStart, TradingEnd)

\* variant of execute_signal that registers the position before the
\* brokerage has answered the order
exec_from_order_early(e, doc, sig) ==
  LET r == open_position(e, doc, sig, dry_run_fill(sig))
  IN [ eng |-> r.eng, sm |-> r.sm,
       res |-> IF settings.mode = "dry_run" THEN "true" ELSE "order" ]

\* execute_signal from _place_order on: the dry-run order is simulated and
\* the position registered at once; any other mode suspends on the brokerage
exec_from_order(e, doc, sig) ==
  IF settings.mode = "dry_run"
  THEN LET r == open_position(e, doc, sig, dry_run_fill(sig))
       IN [ eng |-> r.eng, sm |-> r.sm, res |-> "true" ]
  ELSE [ eng |-> e, sm |-> doc, res |-> "order" ]

\* execute_signal from _get_instrument_token on
exec_from_token(e, doc, sig, token_ok) ==
  IF ~token_ok THEN [ eng |-> e, sm |-> doc, res |-> "false" ]
  ELSE exec_from_order(e, doc, sig)

\* execute_signal from its entry to the first suspension or to its return
exec_entry(e, doc, sig, token_ok) ==
  IF sig = NoSignal THEN [ eng |-> e, sm |-> doc, res |-> "false" ]
  ELSE IF settings.one_trade_per_day /\ has_traded_today(doc)
       THEN [ eng |-> e, sm |-> doc, res |-> "false" ]
  ELSE IF ~in_trading_hours THEN [ eng |-> e, sm |-> doc, res |-> "false" ]
  ELSE IF settings.mode = "dry_run" THEN exec_from_token(e, doc, sig, token_ok)
  ELSE [ eng |-> e, sm |-> doc, res |-> "margin" ]

\* ============================================================== initial state

\* a request handler: wait is the task it awaits, snap the list
\* force_close_all iterates and fc the part of it still to be handled
IdleHandler == [ kind |-> "none", pc |-> "idle", wait |-> 0, snap |-> << >>,
                 fc |-> << >> ]

\* the Live Monitor before /live/start has created it
IdleLiveMonitor ==
  [ pc |-> "none", stock |-> 0, skipped |-> 0, option_contracts |-> << >>,
    result |-> "none", monitoring_active |-> FALSE, idx |-> 0,
    stage |-> "none", pattern_alerts |-> << >>, past_signals |-> << >>,
    total_invested |-> 0, total_current_value |-> 0,
    stop_requested |-> FALSE ]

\* no table: the None of _load_from_cache, and a call that has not returned
NoTable == [ name |-> "none", rows |-> << >> ]

\* no file for a cache key
NoFile == [ field |-> "none", rows |-> << >> ]

Adapters == { "dhan", "zerodha" }

\* DataEngine.__init__ with the adapter that _initialize_broker chose: an
\* empty cache directory and no call under way. A call of fetch_ohlc_data
\* is its arguments, whether it has read the cache, fetched from the
\* brokerage and written the cache, what it returned, and what the last
\* completed caching call with its key had returned when it began
NewDataEngine(broker) ==
  [ broker |-> broker, cache |-> [ k \in CacheKeys |-> NoFile ],
    returned |-> [ k \in CacheKeys |-> NoTable ],
    call |-> [ c \in Callers |->
                 [ pc |-> "idle", key |-> 0, use_cache |-> FALSE,
                   read |-> FALSE, fetched |-> FALSE, wrote |-> FALSE,
                   result |-> NoTable, prior |-> NoTable ] ] ]

\* a caller of the pure functions (utils.py, AnalysisEngine): the function it
\* called, the arguments it passed and the value it got back
NoCall == [ fn |-> "none", in |-> << >>, out |-> << >> ]

\* the components as their constructors leave them.
\* smc, a caller of the State Manager: the operation it called last with its
\* argument and return value, the document and the time of the call, the
\* document get_state handed to it and the lists of that document that are
\* still the manager's own list objects.
\* stask, a loop task: ended is how its last cycle ended, exec what
\* execute_signal returned in it and raised the number of exceptions its
\* last loop iteration raised.
\* cm.bc, a broadcast call: snap is the copy of the registry it was started
\* with, i the position of its loop, sent and failed the sockets it has
\* sent to.
\* ad, BrokerAdapter.__init__: authenticated is the adapter's flag, pc the
\* position of a running authenticate; accepted records that an
\* authenticate has succeeded and rejected that one has failed, response is
\* the last BrokerResponse of the adapter with whether the operation made a
\* network request and whether it was invoked before any authenticate had
\* succeeded.
\* api.h, a request handler of the back-test and live-monitoring endpoints,
\* and the response it sent last
InitComponents ==
  /\ ticks = 0
  /\ smc = [ op |-> "none", arg |-> << >>, ret |-> FALSE,
             before |-> default_state, at |-> NoTime,
             has_view |-> FALSE, view |-> default_state, shares |-> {},
             ops |-> 0 ]
  /\ sm = default_state
  /\ disk = default_state
  /\ thr = [ t \in Threads |-> [ pc |-> "idle", seen |-> 0, calls |-> 0 ] ]
  /\ sched = [ is_running |-> FALSE, scheduler_task |-> 0,
               last_run_time |-> NoTime, next_run_time |-> NoTime,
               strategy_start_time |-> NoTime ]
  /\ stask = [ t \in Tasks |->
                [ pc |-> "none", wake |-> NoTime, cancel |-> FALSE,
                  sig |-> NoSignal, ended |-> "none", exec |-> "none",
                  raised |-> 0 ] ]
  /\ eng = [ is_running |-> FALSE, monitor_task |-> 0,
             active_positions |-> << >>, trades_history |-> << >>, npos |-> 0 ]
  /\ mtask = [ t \in Tasks |->
                [ pc |-> "none", wake |-> NoTime, cancel |-> FALSE ] ]
  /\ h = [ r \in Reqs |-> IdleHandler ]
  /\ last = [ seq |-> 0, kind |-> "none", code |-> 0, auth |-> "none",
              broadcast |-> "none" ]
  /\ lm = IdleLiveMonitor
  /\ cm = [ active_connections |-> << >>, nsock |-> 0, left |-> {},
            failed |-> {},
            bc |-> [ b \in Broadcasts |->
                       [ pc |-> "idle", snap |-> << >>, i |-> 0, sent |-> {},
                         failed |-> {} ] ] ]
  /\ ad = [ a \in Adapters |->
             [ authenticated |-> FALSE, pc |-> "idle", accepted |-> FALSE,
               rejected |-> FALSE,
               response |-> [ op |-> "none", success |-> FALSE,
                              error |-> "none", network |-> FALSE,
                              before_auth |-> FALSE ] ] ]
  /\ api = [ results_file |-> FALSE, monitors |-> 0,
             h |-> [ r \in ApiReqs |->
                       [ pc |-> "idle", endpoint |-> "none", status |-> 0,
                         body |-> "none" ] ] ]

\* use_dhan is True by default, so the DataEngine's adapter is DhanAdapter
InitCommon ==
  /\ InitComponents
  /\ de = NewDataEngine("dhan")
  /\ pf = NoCall

\* the service is started shortly before the market opens or shortly before
\* it closes, with the default settings except for the two that the
\* environment supplies
Init ==
  /\ InitCommon
  /\ \E c \in { [ now |-> 33270, candle |-> 1 ],
               [ now |-> 33270, candle |-> 0 ],
               [ now |-> 55740, candle |-> 20 ] } :
       /\ now = c.now
       /\ settings \in [ mode : { "dry_run" }, run_strategy : BOOLEAN,
                         one_trade_per_day : { TRUE }, quantity : { 1 },
                         scheduler_candle_minutes : { c.candle } ]

\* ==================================================== State Manager, threaded

\* log_error, first half: the caller's thread evaluates
\* self._state.get("error_count", 0) + 1 without holding the lock
LogErrorRead(t) ==
  /\ thr[t].pc = "idle"
  /\ thr[t].calls < MaxCalls
  /\ thr' = [ thr EXCEPT ![t] = [ @ EXCEPT !.pc = "read", !.seen = sm.error_count ] ]
  /\ UNCHANGED <<settings, now, ticks, sm, disk, sched, stask, eng, mtask, h,
                 last, periphery>>

\* log_error, second half: update_state merges and saves under the lock
LogErrorWrite(t, ok) ==
  /\ thr[t].pc = "read"
  /\ sm' = update_state(sm, log_error_updates(thr[t].seen, "error"))
  /\ disk' = safe_json_save(sm', ok)
  /\ thr' = [ thr EXCEPT ![t] = [ @ EXCEPT !.pc = "idle", !.calls = @ + 1 ] ]
  /\ UNCHANGED <<settings, now, ticks, sched, stask, eng, mtask, h, last,
                 periphery>>

\* the service before anything was started, with the default settings
InitIdle ==
  /\ InitCommon
  /\ now = 33270
  /\ settings = [ mode |-> "dry_run", run_strategy |-> FALSE,
                  one_trade_per_day |-> TRUE, quantity |-> 1,
                  scheduler_candle_minutes |-> 20 ]

NextLogError ==
  \/ \E t \in Threads : LogErrorRead(t)
  \/ \E t \in Threads, ok \in BOOLEAN : LogErrorWrite(t, ok)

SpecLogError == InitIdle /\ [][NextLogError]_vars

RECURSIVE SumCalls(_)
SumCalls(n) == IF n = 0 THEN 0 ELSE thr[n].calls + SumCalls(n - 1)

\* C1: for any interleaving of concurrent logError calls from different
\* threads, error_count ends exactly as many higher as calls were made: once
\* no call is in progress, error_count equals the number of completed calls.
C1_NoLostIncrement ==
  (\A t \in Threads : thr[t].pc = "idle") => sm.error_count = SumCalls(NThreads)

\* ================================================================== Scheduler

Runnable(rec) ==
  /\ ~rec.cancel
  /\ \/ rec.pc = "ready"
     \/ rec.pc = "sleep" /\ now >= rec.wake

Sleeping(rec, seconds) ==
  [ rec EXCEPT !.pc = "sleep", !.wake = now + seconds ]

\* variant of _should_run_now that trusts the candle boundary alone
should_run_now_at_boundary ==
  \/ sched.last_run_time = NoTime
  \/ now >= sched.next_run_time

\* _should_run_now
should_run_now ==
  \/ sched.last_run_time = NoTime
  \/ now - sched.last_run_time >= settings.scheduler_candle_minutes * 60

\* _run_scheduler, from the loop test to the first suspension: the task ends
\* when is_running is off, sleeps when the strategy may not run or is not
\* due, and otherwise enters _run_strategy, which suspends on the spot fetch
SchedLoopTop(t) ==
  /\ Runnable(stask[t])
  /\ stask' = [ stask EXCEPT ![t] =
       IF ~sched.is_running THEN [ @ EXCEPT !.pc = "done" ]
       ELSE IF ~settings.run_strategy THEN Sleeping(@, IdleSleep)
       ELSE IF ~in_trading_hours THEN Sleeping(@, IdleSleep)
       ELSE IF ~should_run_now THEN Sleeping(@, DueSleep)
       ELSE [ @ EXCEPT !.pc = "spot" ] ]
  /\ UNCHANGED <<settings, now, ticks, sm, disk, thr, periphery, sched, eng, mtask, h,
                 last>>

\* _run_scheduler lines 110-123, after _run_strategy returned with the engine
\* e2 and the state document doc2: record the run, sleep to the next candle;
\* how is the way _run_strategy ended, res what execute_signal returned in
\* this cycle ("none": not called), raised the number of exceptions
\* _run_strategy caught
FinishCycle(t, e2, doc2, how, res, raised) ==
  IF settings.scheduler_candle_minutes = 0
  THEN \* get_next_candle_time divides by zero: the loop's except clause
       \* logs the error and backs off
       /\ sched' = [ sched EXCEPT !.last_run_time = now ]
       /\ sm' = log_error(update_last_run(doc2, now), "Scheduler error")
       /\ disk' = safe_json_save(sm', TRUE)
       /\ eng' = e2
       /\ stask' = [ stask EXCEPT ![t] =
            [ pc |-> "sleep", wake |-> now + IdleSleep, cancel |-> FALSE,
              sig |-> NoSignal, ended |-> how, exec |-> res,
              raised |-> raised + 1 ] ]
  ELSE LET next == get_next_candle_time(now, settings.scheduler_candle_minutes)
       IN /\ sched' = [ sched EXCEPT !.last_run_time = now, !.next_run_time = next ]
          /\ sm' = update_last_run(doc2, now)
          /\ disk' = safe_json_save(sm', TRUE)
          /\ eng' = e2
          /\ stask' = [ stask EXCEPT ![t] =
               [ pc |-> IF next - now > 0 THEN "sleep" ELSE "ready",
                 wake |-> next, cancel |-> FALSE, sig |-> NoSignal,
                 ended |-> how, exec |-> res, raised |-> raised ] ]

\* _run_strategy: the spot price arrives; a non-positive price ends the cycle
SchedSpotReturns(t, spot_ok) ==
  /\ stask[t].pc = "spot" /\ ~stask[t].cancel
  /\ IF spot_ok
     THEN /\ stask' = [ stask EXCEPT ![t].pc = "data" ]
          /\ UNCHANGED <<sm, disk, sched, eng>>
     ELSE FinishCycle(t, eng, sm, "no_spot", "none", 0)
  /\ UNCHANGED <<settings, now, ticks, thr, periphery, mtask, h, last>>

\* variant of _run_strategy that validates the data only after it has acted
\* on the signal
cycle_path_validate_late(outcome) ==
  IF outcome = "empty" THEN "abort"
  ELSE IF outcome = "poor_quality" THEN "signal"
  ELSE outcome

\* _run_strategy lines 145-183: the branch the cycle takes once the data has
\* arrived; empty data and a series of poor quality end the cycle before any
\* signal is generated
cycle_path(outcome) ==
  IF outcome \in { "empty", "poor_quality" } THEN "abort" ELSE outcome

\* _run_strategy: the call/put data arrives; validation, signal generation
\* and execute_signal up to its first suspension
SchedDataReturns(t, outcome, sig, token_ok) ==
  /\ stask[t].pc = "data" /\ ~stask[t].cancel
  /\ cycle_path(outcome) = "signal" => eng.npos < MaxPos
  /\ CASE cycle_path(outcome) = "abort" ->
            FinishCycle(t, eng, sm, outcome, "none", 0)
       [] cycle_path(outcome) = "raise" ->
            FinishCycle(t, eng, log_error(sm, "Strategy error"), outcome, "none", 1)
       [] cycle_path(outcome) = "no_signal" ->
            FinishCycle(t, eng, update_last_candle(sm, now), outcome, "none", 0)
       [] cycle_path(outcome) = "signal" ->
            LET doc1 == update_signal(sm, signal_to_dict(sig))
                r == exec_entry(eng, doc1, sig, token_ok)
            IN IF r.res \in { "true", "false" }
               THEN FinishCycle(t, r.eng, update_last_candle(r.sm, now), outcome,
                                r.res, 0)
               ELSE /\ stask' = [ stask EXCEPT ![t] =
                         [ @ EXCEPT !.pc = r.res, !.sig = sig ] ]
                    /\ sm' = r.sm
                    /\ disk' = safe_json_save(sm', TRUE)
                    /\ eng' = r.eng
                    /\ UNCHANGED sched
  /\ UNCHANGED <<settings, now, ticks, thr, periphery, mtask, h, last>>

\* execute_signal: the brokerage's margin reply arrives (_check_margin), then
\* the instrument token is resolved and the order placed
SchedMarginReturns(t, margin_ok, token_ok) ==
  /\ stask[t].pc = "margin" /\ ~stask[t].cancel
  /\ LET r == IF margin_ok THEN exec_from_token(eng, sm, stask[t].sig, token_ok)
              ELSE [ eng |-> eng, sm |-> sm, res |-> "false" ]
     IN IF r.res \in { "true", "false" }
        THEN FinishCycle(t, r.eng, update_last_candle(r.sm, now), "signal",
                         r.res, 0)
        ELSE /\ stask' = [ stask EXCEPT ![t].pc = r.res ]
             /\ sm' = r.sm
             /\ disk' = safe_json_save(sm', TRUE)
             /\ eng' = r.eng
             /\ UNCHANGED sched
  /\ UNCHANGED <<settings, now, ticks, thr, periphery, mtask, h, last>>

\* execute_signal: the brokerage's reply to place_order arrives (_place_order
\* turns a failure reply and an exception alike into success = False)
SchedOrderReturns(t, outcome, fill) ==
  /\ stask[t].pc = "order" /\ ~stask[t].cancel
  /\ LET r == IF outcome = "ok"
              THEN open_position(eng, sm, stask[t].sig, live_fill(stask[t].sig, fill))
              ELSE [ eng |-> eng, sm |-> sm ]
         res == IF outcome = "ok" THEN "true" ELSE "false"
     IN FinishCycle(t, r.eng, update_last_candle(r.sm, now), "signal", res, 0)
  /\ UNCHANGED <<settings, now, ticks, thr, periphery, mtask, h, last>>

\* a cancelled loop task receives CancelledError at its suspension point,
\* which no `except Exception` clause catches: the task ends
SchedTaskCancelled(t) ==
  /\ stask[t].cancel
  /\ stask[t].pc \notin { "none", "done" }
  /\ stask' = [ stask EXCEPT ![t] = [ @ EXCEPT !.pc = "done", !.cancel = FALSE ] ]
  /\ UNCHANGED <<settings, now, ticks, sm, disk, thr, periphery, sched, eng, mtask, h,
                 last>>

\* ================================================= Execution Engine, monitor

\* _monitor_positions, one pass: get_live_price returns 0.0, so
\* _check_position_exit returns for every position before any exit; the
\* active positions are then published to the State Manager
MonitorSweep(t) ==
  /\ Runnable(mtask[t])
  /\ IF ~eng.is_running
     THEN /\ mtask' = [ mtask EXCEPT ![t].pc = "done" ]
          /\ UNCHANGED <<sm, disk>>
     ELSE /\ mtask' = [ mtask EXCEPT ![t] = Sleeping(@, MonitorSleep) ]
          /\ sm' = update_state(sm, [ open_positions |->
                     [ i \in 1..Len(eng.active_positions) |->
                         position_to_dict(eng.active_positions[i]) ] ])
          /\ disk' = safe_json_save(sm', TRUE)
  /\ UNCHANGED <<settings, now, ticks, thr, periphery, sched, stask, eng, h, last>>

MonitorTaskCancelled(t) ==
  /\ mtask[t].cancel
  /\ mtask[t].pc \notin { "none", "done" }
  /\ mtask' = [ mtask EXCEPT ![t] = [ @ EXCEPT !.pc = "done", !.cancel = FALSE ] ]
  /\ UNCHANGED <<settings, now, ticks, sm, disk, thr, periphery, sched, stask, eng, h,
                 last>>

\* the clock
Tick ==
  /\ ticks < MaxTicks
  /\ ticks' = ticks + 1
  /\ now' = now + TickSeconds
  /\ UNCHANGED <<settings, sm, disk, thr, periphery, sched, stask, eng, mtask, h,
                 last>>

\* =============================================================== control API

\* request bodies of POST /start_strategy; "None", 0 and "None" are absent
\* fields (a missing body behaves as the body with every field absent).
\* StrategyStartRequest declares mode as Optional[str]: any string is a
\* well-formed body, "paper" stands for one that is neither mode
StartBodies ==
  { [ mode |-> "None", quantity |-> 0, one_trade_per_day |-> "None" ],
    [ mode |-> "live", quantity |-> 0, one_trade_per_day |-> "None" ],
    [ mode |-> "paper", quantity |-> 0, one_trade_per_day |-> "None" ],
    [ mode |-> "dry_run", quantity |-> 2, one_trade_per_day |-> "false" ] }

\* a request is served by the first idle handler; the model follows the
\* service for MaxRequests requests
SlotFree(r) ==
  /\ h[r].pc = "idle"
  /\ \A q \in Reqs : q < r => h[q].pc # "idle"
  /\ last.seq + Cardinality({ q \in Reqs : h[q].pc # "idle" }) < MaxRequests

\* what a handler run leaves behind: the HTTP status of its reply, the
\* message it broadcast, and for start_strategy the outcome of the
\* authentication; seq numbers the replies
Respond(kind, code, auth, message) ==
  [ seq |-> last.seq + 1, kind |-> kind, code |-> code, auth |-> auth,
    broadcast |-> message ]

\* start_strategy lines 120-127
apply_overrides(cfg, body) ==
  [ cfg EXCEPT
      !.mode = IF body.mode # "None" THEN body.mode ELSE @,
      !.quantity = IF body.quantity # 0 THEN body.quantity ELSE @,
      !.one_trade_per_day =
        IF body.one_trade_per_day # "None" THEN body.one_trade_per_day = "true"
        ELSE @ ]

\* the loop task a successful start creates: the first task id not yet used
FreeTasks == { t \in Tasks : stask[t].pc = "none" /\ mtask[t].pc = "none" }

\* variant of start_strategy that applies the request's overrides before it
\* looks at is_running
StartBegin_overrides_first(r, body) ==
  /\ SlotFree(r)
  /\ settings' = apply_overrides(settings, body)
  /\ IF sched.is_running
     THEN /\ last' = Respond("start", 400, "none", "none")
          /\ UNCHANGED h
     ELSE /\ h' = [ h EXCEPT ![r] = [ IdleHandler EXCEPT !.kind = "start", !.pc = "auth" ] ]
          /\ UNCHANGED last
  /\ UNCHANGED <<now, ticks, sm, disk, thr, periphery, sched, stask, eng, mtask>>

\* start_strategy up to the suspension in TradingScheduler.start on
\* data_engine.authenticate()
StartBegin(r, body) ==
  /\ SlotFree(r)
  /\ IF sched.is_running
     THEN /\ last' = Respond("start", 400, "none", "none")
          /\ UNCHANGED <<settings, h>>
     ELSE /\ settings' = apply_overrides(settings, body)
          /\ h' = [ h EXCEPT ![r] = [ IdleHandler EXCEPT !.kind = "start", !.pc = "auth" ] ]
          /\ UNCHANGED last
  /\ UNCHANGED <<now, ticks, sm, disk, thr, periphery, sched, stask, eng, mtask>>

\* TradingScheduler.start after authenticate, then the rest of start_strategy:
\* the broadcast and the success reply
StartAuthReturns(r, ok) ==
  /\ h[r].kind = "start" /\ h[r].pc = "auth"
  /\ ok => FreeTasks # {}
  /\ IF ok
     THEN LET t == CHOOSE f \in FreeTasks : \A u \in FreeTasks : f <= u
          IN /\ eng' = [ eng EXCEPT !.is_running = TRUE, !.monitor_task = t ]
             /\ mtask' = [ mtask EXCEPT ![t].pc = "ready" ]
             /\ sched' = [ sched EXCEPT !.is_running = TRUE,
                                        !.strategy_start_time = now,
                                        !.scheduler_task = t ]
             /\ stask' = [ stask EXCEPT ![t].pc = "ready" ]
             /\ sm' = update_state(set_running(sm, TRUE),
                                   [ strategy_start_time |-> now ])
             /\ disk' = safe_json_save(sm', TRUE)
     ELSE UNCHANGED <<eng, mtask, sched, stask, sm, disk>>
  /\ last' = Respond("start", 200, IF ok THEN "ok" ELSE "failed", "strategy_started")
  /\ h' = [ h EXCEPT ![r] = IdleHandler ]
  /\ UNCHANGED <<settings, now, ticks, thr, periphery>>

\* the end of ExecutionEngine.stop, of TradingScheduler.stop and of
\* stop_strategy, entered with the engine e and the state document doc
StopFinish(r, e, doc) ==
  /\ eng' = e
  /\ sm' = set_running(doc, FALSE)
  /\ disk' = safe_json_save(sm', TRUE)
  /\ last' = Respond("stop", 200, "none", "strategy_stopped")
  /\ h' = [ h EXCEPT ![r] = IdleHandler ]

\* ExecutionEngine.stop, called by TradingScheduler.stop
EngineStop(r, e, doc) ==
  LET e1 == [ e EXCEPT !.is_running = FALSE ]
      m == e.monitor_task
  IN IF m # 0 /\ mtask[m].pc # "done"
     THEN /\ mtask' = [ mtask EXCEPT ![m].cancel = TRUE ]
          /\ eng' = e1
          /\ sm' = doc
          /\ disk' = safe_json_save(sm', TRUE)
          /\ h' = [ h EXCEPT ![r] = [ IdleHandler EXCEPT !.kind = "stop",
                                        !.pc = "stop_wait_monitor", !.wait = m ] ]
          /\ UNCHANGED last
     ELSE /\ StopFinish(r, e1, doc)
          /\ UNCHANGED mtask

\* TradingScheduler.stop from its first line, entered after stop_strategy's
\* optional force close
SchedulerStop(r, e, doc) ==
  IF ~sched.is_running
  THEN \* "Scheduler is not running": stop() returns, the handler goes on
       /\ eng' = e
       /\ sm' = doc
       /\ disk' = safe_json_save(sm', TRUE)
       /\ last' = Respond("stop", 200, "none", "strategy_stopped")
       /\ h' = [ h EXCEPT ![r] = IdleHandler ]
       /\ UNCHANGED <<sched, stask, mtask>>
  ELSE LET t == sched.scheduler_task
       IN /\ sched' = [ sched EXCEPT !.is_running = FALSE ]
          /\ IF t # 0 /\ stask[t].pc # "done"
             THEN /\ stask' = [ stask EXCEPT ![t].cancel = TRUE ]
                  /\ eng' = e
                  /\ sm' = doc
                  /\ disk' = safe_json_save(sm', TRUE)
                  /\ h' = [ h EXCEPT ![r] = [ IdleHandler EXCEPT !.kind = "stop",
                                !.pc = "stop_wait_scheduler", !.wait = t ] ]
                  /\ UNCHANGED <<last, mtask>>
             ELSE /\ EngineStop(r, e, doc)
                  /\ UNCHANGED stask

\* stop_strategy from its entry to its first suspension
StopBegin(r, force_close) ==
  /\ SlotFree(r)
  /\ IF ~sched.is_running
     THEN /\ last' = Respond("stop", 400, "none", "none")
          /\ UNCHANGED <<sm, disk, sched, stask, eng, mtask, h>>
     ELSE IF force_close
     THEN LET fc == force_close_loop(eng, sm, eng.active_positions)
          IN IF fc.rest # << >>
             THEN /\ h' = [ h EXCEPT ![r] = [ IdleHandler EXCEPT !.kind = "stop",
                              !.pc = "exit_order", !.snap = eng.active_positions,
                              !.fc = fc.rest ] ]
                  /\ eng' = fc.eng
                  /\ sm' = fc.sm
                  /\ disk' = safe_json_save(sm', TRUE)
                  /\ UNCHANGED <<sched, stask, mtask, last>>
             ELSE SchedulerStop(r, fc.eng, fc.sm)
     ELSE SchedulerStop(r, eng, sm)
  /\ UNCHANGED <<settings, now, ticks, thr, periphery>>

\* TradingScheduler.stop resumes once the cancelled loop task has ended
StopSchedulerTaskDone(r) ==
  /\ h[r].kind = "stop" /\ h[r].pc = "stop_wait_scheduler"
  /\ stask[h[r].wait].pc = "done"
  /\ EngineStop(r, eng, sm)
  /\ UNCHANGED <<settings, now, ticks, thr, periphery, sched, stask>>

\* ExecutionEngine.stop resumes once the cancelled monitor task has ended
StopMonitorTaskDone(r) ==
  /\ h[r].kind = "stop" /\ h[r].pc = "stop_wait_monitor"
  /\ mtask[h[r].wait].pc = "done"
  /\ StopFinish(r, eng, sm)
  /\ UNCHANGED <<settings, now, ticks, thr, periphery, sched, stask, mtask>>

\* the end of the force_close_all endpoint: force_close_all returned True
ForceFinish(r, e, doc) ==
  /\ eng' = e
  /\ sm' = doc
  /\ disk' = safe_json_save(sm', TRUE)
  /\ last' = Respond("force_close", 200, "none", "positions_force_closed")
  /\ h' = [ h EXCEPT ![r] = IdleHandler ]

\* POST /force_close_all from its entry to its first suspension
ForceBegin(r) ==
  /\ SlotFree(r)
  /\ LET fc == force_close_loop(eng, sm, eng.active_positions)
     IN IF fc.rest # << >>
        THEN /\ h' = [ h EXCEPT ![r] = [ IdleHandler EXCEPT !.kind = "force_close",
                         !.pc = "exit_order", !.snap = eng.active_positions,
                         !.fc = fc.rest ] ]
             /\ eng' = fc.eng
             /\ sm' = fc.sm
             /\ disk' = safe_json_save(sm', TRUE)
             /\ UNCHANGED last
        ELSE ForceFinish(r, fc.eng, fc.sm)
  /\ UNCHANGED <<settings, now, ticks, thr, periphery, sched, stask, mtask>>

\* _exit_position resumes with the brokerage's reply to the exit order
\* (_place_exit_order turns a failure reply and an exception alike into
\* success = False); force_close_all then goes on with the next position
ExitOrderReturns(r, outcome) ==
  /\ h[r].pc = "exit_order"
  /\ LET p == Head(h[r].fc)
         x == IF outcome = "ok"
              THEN exit_position(eng, sm, p, "force_close", p.current_price)
              ELSE [ eng |-> eng, sm |-> sm ]
         fc == force_close_loop(x.eng, x.sm, Tail(h[r].fc))
     IN IF fc.rest # << >>
        THEN /\ h' = [ h EXCEPT ![r].fc = fc.rest ]
             /\ eng' = fc.eng
             /\ sm' = fc.sm
             /\ disk' = safe_json_save(sm', TRUE)
             /\ UNCHANGED <<sched, stask, mtask, last>>
        ELSE IF h[r].kind = "stop"
        THEN SchedulerStop(r, fc.eng, fc.sm)
        ELSE /\ ForceFinish(r, fc.eng, fc.sm)
             /\ UNCHANGED <<sched, stask, mtask>>
  /\ UNCHANGED <<settings, now, ticks, thr, periphery>>

\* ============================================================== Live Monitor

\* _add_stock_options: the number of stocks in its list
NStocks == 20

\* LiveMonitor.initial_investment, rupees per signal
InitialInvestment == 10000

\* BacktestEngine.min_trade_amount and max_trade_amount, rupees
MinTradeAmount == 2000
MaxTradeAmount == 5000

\* the call and the put contract of one underlying at its single strike;
\* stocks are numbered in the order of the list
option_pair(symbol, n) ==
  << [ symbol |-> symbol, n |-> n, option_type |-> "CE" ],
     [ symbol |-> symbol, n |-> n, option_type |-> "PE" ] >>

\* _add_nifty50_options followed by _add_banknifty_options
index_options == option_pair("NIFTY50", 0) \o option_pair("BANKNIFTY", 0)

\* start_live_monitoring: a fresh LiveMonitor is created and
\* initialize_contracts suspends on the brokerage's NIFTY50 quote
LiveStart ==
  /\ lm.pc \in { "none", "failed" }
  /\ lm' = [ IdleLiveMonitor EXCEPT !.pc = "nifty" ]
  /\ UNCHANGED beside_lm

\* initialize_contracts resumes with the NIFTY50 price (false when it is 0),
\* computes the expiry (_get_indices_expiry raises ValueError in December)
\* and adds the index contracts; _add_stock_options suspends on the first
\* stock's quote
LiveNiftyPrice(price_ok, expiry_ok) ==
  /\ lm.pc = "nifty"
  /\ lm' = IF ~price_ok \/ ~expiry_ok
           THEN [ lm EXCEPT !.pc = "failed", !.result = "false" ]
           ELSE [ lm EXCEPT !.pc = "stocks", !.stock = 1,
                            !.option_contracts = index_options ]
  /\ UNCHANGED beside_lm

\* _add_stock_options resumes with the quote of the next stock: a price of 0
\* skips the stock; after the last stock initialize_contracts returns True
\* and start_monitoring begins its first pass
LiveStockPrice(price_ok) ==
  /\ lm.pc = "stocks"
  /\ ~price_ok => lm.skipped < MaxSkipped
  /\ LET added == IF price_ok
                  THEN lm.option_contracts \o option_pair("STOCK", lm.stock)
                  ELSE lm.option_contracts
         skipped == IF price_ok THEN lm.skipped ELSE lm.skipped + 1
     IN lm' = IF lm.stock < NStocks
              THEN [ lm EXCEPT !.option_contracts = added, !.skipped = skipped,
                               !.stock = @ + 1 ]
              ELSE [ lm EXCEPT !.option_contracts = added, !.skipped = skipped,
                               !.result = "true", !.pc = "monitor",
                               !.monitoring_active = TRUE, !.idx = 1,
                               !.stage = "check" ]
  /\ UNCHANGED beside_lm

\* _get_mock_price; d is the draw of random.randint in hundredths of the
\* symbol's spread (200 for NIFTY50, 500 for BANKNIFTY, 100 for a stock);
\* stock_prices is its table in the order of the list of _add_stock_options
get_mock_price(contract, d) ==
  LET stock_prices ==
        << 2500, 3500, 1600, 1800, 1000, 900, 450, 600, 1800, 3000,
           10000, 1100, 3500, 2400, 20000, 400, 200, 3000, 8000, 1200 >>
  IN IF contract.symbol = "NIFTY50" THEN 25800 + 2 * d
     ELSE IF contract.symbol = "BANKNIFTY" THEN 45000 + 5 * d
     ELSE stock_prices[contract.n] + d

\* the unit of target_price and stop_loss_price: 1/1250 rupee, in which
\* entry * 0.98 and entry + (entry * u - entry) * 2.36 are whole numbers for
\* every whole entry and every u that is a multiple of 0.02 above 1
PriceScale == 1250

\* variant of update_signal_outcomes that marks every signal again, terminal
\* or not
update_signal_outcomes_all(m, draws) ==
  LET mark(sig, price) ==
        LET pct == ((price - sig.entry_price) * 10000) \div sig.entry_price
        IN [ sig EXCEPT !.current_price = price,
                        !.outcome = IF price * PriceScale >= sig.target_price
                                    THEN "target_hit"
                                    ELSE IF price * PriceScale <= sig.stop_loss_price
                                    THEN "stop_loss_hit"
                                    ELSE "running",
                        !.profit_loss_pct = pct,
                        !.profit_loss_amount = pct ]
  IN [ m EXCEPT !.past_signals =
         [ i \in 1..Len(@) |-> mark(@[i], get_mock_price(@[i].contract, draws[i])) ] ]

\* update_signal_outcomes, one pass over past_signals in order; draws[i] is
\* the draw of the mock price of signal i. A running signal takes the new
\* price and turns terminal at its target or its stop loss; only after a
\* signal that is still running is total_current_value computed again, over
\* the signals as they are at that point of the pass. Percentages are in
\* hundredths of a percent (rounded down where the quotient is not a whole
\* number) and amounts in rupees: initial_investment * pct / 100 is the
\* percentage in hundredths
update_signal_outcomes(m, draws) ==
  LET change(sig, price) ==
        ((price - sig.entry_price) * 10000) \div sig.entry_price
      value(sig) ==
        InitialInvestment +
        (IF sig.outcome # "running" THEN sig.profit_loss_pct
         ELSE change(sig, sig.current_price))
      RECURSIVE total(_, _)
      total(sigs, i) ==
        IF i > Len(sigs) THEN 0 ELSE value(sigs[i]) + total(sigs, i + 1)
      RECURSIVE pass(_, _, _)
      pass(sigs, tcv, i) ==
        IF i > Len(sigs) THEN [ past_signals |-> sigs, total_current_value |-> tcv ]
        ELSE IF sigs[i].outcome # "running" THEN pass(sigs, tcv, i + 1)
        ELSE LET price == get_mock_price(sigs[i].contract, draws[i])
                 pct == change(sigs[i], price)
                 hit == IF price * PriceScale >= sigs[i].target_price
                        THEN "target_hit"
                        ELSE IF price * PriceScale <= sigs[i].stop_loss_price
                        THEN "stop_loss_hit"
                        ELSE "running"
                 sig == IF hit = "running"
                        THEN [ sigs[i] EXCEPT !.current_price = price ]
                        ELSE [ sigs[i] EXCEPT !.current_price = price,
                                              !.outcome = hit,
                                              !.profit_loss_pct = pct,
                                              !.profit_loss_amount = pct ]
                 after == [ sigs EXCEPT ![i] = sig ]
             IN pass(after, IF hit = "running" THEN total(after, 1) ELSE tcv,
                     i + 1)
      r == pass(m.past_signals, m.total_current_value, 1)
  IN [ m EXCEPT !.past_signals = r.past_signals,
                !.total_current_value = r.total_current_value ]

\* _process_batch goes on with the next contract; after the last one
\* start_monitoring runs update_signal_outcomes and sleeps update_interval
next_contract(m, draws) ==
  IF m.idx < Len(m.option_contracts)
  THEN [ m EXCEPT !.stage = "check", !.idx = @ + 1 ]
  ELSE [ update_signal_outcomes(m, draws) EXCEPT !.stage = "sleep" ]

\* _check_contract_pattern up to its first sleep: the pattern draw, the
\* pattern_detected alert and the KST draw. The model lets a pattern appear
\* on MaxWatched contracts, the first NIFTY50 one and the first stock ones;
\* draws are the mock prices of the pass of update_signal_outcomes, one for
\* each signal, drawn where a pass follows the step (after the last contract)
LiveCheckContract(pattern, kst, draws) ==
  /\ lm.pc = "monitor" /\ lm.stage = "check"
  /\ lm.option_contracts # << >>
  /\ lm.idx < Len(lm.option_contracts) => \A i \in DOMAIN draws : draws[i] = -4
  /\ pattern => /\ lm.idx \in { 1 } \cup 5..(3 + MaxWatched)
                /\ Len(lm.pattern_alerts) + 3 <= MaxAlerts
  /\ LET c == lm.option_contracts[lm.idx]
         m == [ lm EXCEPT !.pattern_alerts =
                  Append(@, [ contract |-> c, status |-> "pattern_detected" ]) ]
     IN lm' = IF ~pattern THEN next_contract(lm, draws)
              ELSE IF kst THEN [ m EXCEPT !.stage = "kst_wait" ]
              ELSE next_contract(m, draws)
  /\ UNCHANGED beside_lm

\* variant of the KST step that reports the breakout at once
LiveKstWake_breakout_first(breakout, draws) ==
  /\ lm.pc = "monitor" /\ lm.stage = "kst_wait"
  /\ lm.idx < Len(lm.option_contracts) => \A i \in DOMAIN draws : draws[i] = -4
  /\ LET c == lm.option_contracts[lm.idx]
         m == [ lm EXCEPT !.pattern_alerts =
                  Append(@, [ contract |-> c,
                              status |-> IF breakout THEN "breakout_confirmed"
                                         ELSE "kst_overlap" ]) ]
     IN lm' = next_contract(m, draws)
  /\ UNCHANGED beside_lm

\* _check_contract_pattern after the first sleep: the kst_overlap alert and
\* the breakout draw
LiveKstWake(breakout, draws) ==
  /\ lm.pc = "monitor" /\ lm.stage = "kst_wait"
  /\ lm.idx < Len(lm.option_contracts) => \A i \in DOMAIN draws : draws[i] = -4
  /\ LET c == lm.option_contracts[lm.idx]
         m == [ lm EXCEPT !.pattern_alerts =
                  Append(@, [ contract |-> c, status |-> "kst_overlap" ]) ]
     IN lm' = IF breakout THEN [ m EXCEPT !.stage = "breakout_wait" ]
              ELSE next_contract(m, draws)
  /\ UNCHANGED beside_lm

\* _check_contract_pattern after the second sleep: the breakout_confirmed
\* alert and the PastSignal; d is the draw of the entry price and u the
\* draw of the channel breakout factor, in thousandths. With
\* _calculate_fibonacci_targets the target is entry + (entry * u - entry) *
\* 2.36 and the stop loss entry * 0.98
LiveBreakoutWake(d, u, draws) ==
  /\ lm.pc = "monitor" /\ lm.stage = "breakout_wait"
  /\ lm.idx < Len(lm.option_contracts) => \A i \in DOMAIN draws : draws[i] = -4
  /\ LET c == lm.option_contracts[lm.idx]
         entry == get_mock_price(c, d)
         past_signal ==
           [ contract |-> c, entry_price |-> entry,
             target_price |-> entry * PriceScale + (entry * (u - 1000) * 59) \div 20,
             stop_loss_price |-> entry * 1225,
             current_price |-> entry, outcome |-> "running",
             profit_loss_pct |-> 0, profit_loss_amount |-> 0 ]
     IN lm' = next_contract(
                [ lm EXCEPT !.pattern_alerts =
                              Append(@, [ contract |-> c,
                                          status |-> "breakout_confirmed" ]),
                            !.past_signals = Append(@, past_signal),
                            !.total_invested = @ + InitialInvestment,
                            !.total_current_value = @ + InitialInvestment ],
                draws)
  /\ UNCHANGED beside_lm

\* start_monitoring after asyncio.sleep(update_interval): the loop test
LiveLoopCheck ==
  /\ lm.pc = "monitor" /\ lm.stage = "sleep"
  /\ lm' = IF lm.monitoring_active
           THEN [ lm EXCEPT !.stage = "check", !.idx = 1 ]
           ELSE [ lm EXCEPT !.pc = "done", !.stage = "none" ]
  /\ UNCHANGED beside_lm

\* stop_monitoring, called on the monitor at any time after its creation
LiveStopMonitoring ==
  /\ lm.pc # "none"
  /\ lm' = [ lm EXCEPT !.monitoring_active = FALSE, !.stop_requested = TRUE ]
  /\ UNCHANGED beside_lm

\* the draws SpecLive follows: one mock price per symbol
NextLive ==
  \/ LiveStart
  \/ \E p \in BOOLEAN, e \in BOOLEAN : LiveNiftyPrice(p, e)
  \/ \E p \in BOOLEAN : LiveStockPrice(p)
  \/ \E p \in BOOLEAN, k \in BOOLEAN :
       LiveCheckContract(p, k, [ i \in 1..(MaxAlerts \div 3) |-> -4 ])
  \/ \E b \in BOOLEAN : LiveKstWake(b, [ i \in 1..(MaxAlerts \div 3) |-> -4 ])
  \/ LiveBreakoutWake(-100, 1020, [ i \in 1..(MaxAlerts \div 3) |-> -4 ])
  \/ LiveLoopCheck

\* SpecLive: the Live Monitor from /live/start on
SpecLive == InitIdle /\ [][NextLive]_vars

\* SpecSignals: a Live Monitor whose quotes all arrive, with the draws of the
\* mock prices and a caller of stop_monitoring. The entry price is drawn
\* from the ends of randint's range and the channel breakout factor is the
\* lowest, 1.02; with the marks between them a stock signal can reach its
\* target, its stop loss or neither, and a NIFTY50 signal neither
NextSignals ==
  \/ LiveStart
  \/ LiveNiftyPrice(TRUE, TRUE)
  \/ LiveStockPrice(TRUE)
  \/ LiveLoopCheck
  \/ LiveStopMonitoring
  \/ \E p \in BOOLEAN, k \in BOOLEAN,
        draws \in [ 1..(MaxAlerts \div 3) -> { -82, -4, 74 } ] :
       LiveCheckContract(p, k, draws)
  \/ \E b \in BOOLEAN, draws \in [ 1..(MaxAlerts \div 3) -> { -82, -4, 74 } ] :
       LiveKstWake(b, draws)
  \/ \E d \in { -100, 100 }, u \in { 1020 },
        draws \in [ 1..(MaxAlerts \div 3) -> { -82, -4, 74 } ] :
       LiveBreakoutWake(d, u, draws)

SpecSignals == InitIdle /\ [][NextSignals]_vars

\* ======================================================== ConnectionManager

Elems(seq) == { seq[k] : k \in 1..Len(seq) }

\* websocket_endpoint -> ConnectionManager.connect: a new socket is accepted
\* and registered; sockets are numbered in the order of their arrival
WsConnect ==
  /\ cm.nsock < MaxSockets
  /\ cm' = [ cm EXCEPT !.nsock = @ + 1,
                       !.active_connections = Append(@, cm.nsock + 1) ]
  /\ UNCHANGED beside_cm

\* variant of disconnect that leaves the registry as it is
disconnect_keeps(conns, s) == conns

\* ConnectionManager.disconnect
disconnect(conns, s) == SelectSeq(conns, LAMBDA x : x # s)

\* websocket_endpoint: the client goes away (WebSocketDisconnect)
WsDisconnect(s) ==
  /\ s \in 1..cm.nsock
  /\ s \notin cm.left
  /\ cm' = [ cm EXCEPT !.left = @ \cup { s },
                       !.active_connections = disconnect(@, s) ]
  /\ UNCHANGED beside_cm

\* broadcast: the list its loop iterates in the manager's state c, a copy of
\* the registry taken when the call started
iterated(c, b) == c.bc[b].snap

\* broadcast from its entry to its first send (or to its end, with nothing
\* to iterate)
BroadcastBegin(b) ==
  /\ cm.bc[b].pc = "idle"
  /\ \A q \in Broadcasts : q < b => cm.bc[q].pc # "idle"
  /\ cm' = [ cm EXCEPT !.bc[b] =
       [ pc |-> IF cm.active_connections = << >> THEN "idle" ELSE "send",
         snap |-> cm.active_connections, i |-> 1, sent |-> {}, failed |-> {} ] ]
  /\ UNCHANGED beside_cm

\* broadcast resumes from send_text on the current socket: a failure
\* deregisters the socket; the loop goes on with the next element
BroadcastSend(b, ok) ==
  /\ cm.bc[b].pc = "send"
  /\ LET s == iterated(cm, b)[cm.bc[b].i]
         conns == IF ok THEN cm.active_connections
                  ELSE disconnect(cm.active_connections, s)
         after == [ cm EXCEPT !.active_connections = conns ]
     IN /\ cm' = [ cm EXCEPT
             !.active_connections = conns,
             !.failed = IF ok THEN @ ELSE @ \cup { s },
             !.bc[b] = [ @ EXCEPT
                !.sent = IF ok THEN @ \cup { s } ELSE @,
                !.failed = IF ok THEN @ ELSE @ \cup { s },
                !.i = @ + 1,
                !.pc = IF cm.bc[b].i + 1 <= Len(iterated(after, b))
                       THEN "send" ELSE "idle" ] ]
  /\ UNCHANGED beside_cm

NextBroadcast ==
  \/ WsConnect
  \/ \E s \in 1..MaxSockets : WsDisconnect(s)
  \/ \E b \in Broadcasts : BroadcastBegin(b)
  \/ \E b \in Broadcasts, ok \in BOOLEAN : BroadcastSend(b, ok)

\* SpecBroadcast: sockets come and go while broadcasts run
SpecBroadcast == InitIdle /\ [][NextBroadcast]_vars

\* ============================== back-test and live-monitoring endpoints

\* FastAPI's status for a handler that returns a plain dict
StatusOK == 200

\* the handler r answers: a JSONResponse carries the status it names, a
\* returned dict the default one
respond(r, endpoint, status, body) ==
  [ api EXCEPT !.h[r] = [ pc |-> "idle", endpoint |-> endpoint,
                          status |-> status, body |-> body ] ]

\* POST /backtest/run up to the await of authenticate
BacktestRunBegin(r) ==
  /\ api.h[r].pc = "idle"
  /\ api' = [ api EXCEPT !.h[r].pc = "backtest_auth" ]
  /\ UNCHANGED beside_api

\* POST /backtest/run resumes from authenticate
BacktestAuthReturns(r, outcome) ==
  /\ api.h[r].pc = "backtest_auth"
  /\ api' = CASE outcome = "ok" -> [ api EXCEPT !.h[r].pc = "backtest_run" ]
              [] outcome = "fail" ->
                   respond(r, "/backtest/run", StatusOK, "error")
              [] outcome = "raise" ->
                   respond(r, "/backtest/run", 500, "error")
  /\ UNCHANGED beside_api

\* POST /backtest/run resumes from BacktestEngine.run_backtest and writes
\* backtest_results.json
BacktestRunReturns(r, ok) ==
  /\ api.h[r].pc = "backtest_run"
  /\ api' = IF ok
            THEN [ respond(r, "/backtest/run", StatusOK, "results")
                     EXCEPT !.results_file = TRUE ]
            ELSE respond(r, "/backtest/run", 500, "error")
  /\ UNCHANGED beside_api

\* GET /backtest/results
BacktestResults(r, readable) ==
  /\ api.h[r].pc = "idle"
  /\ api' = CASE ~api.results_file ->
                   respond(r, "/backtest/results", 404, "error")
              [] api.results_file /\ readable ->
                   respond(r, "/backtest/results", StatusOK, "results")
              [] OTHER -> respond(r, "/backtest/results", 500, "error")
  /\ UNCHANGED beside_api

\* POST /live/start up to the await of authenticate
LiveStartBegin(r) ==
  /\ api.h[r].pc = "idle"
  /\ api' = [ api EXCEPT !.h[r].pc = "live_auth" ]
  /\ UNCHANGED beside_api

\* POST /live/start resumes from authenticate; with the brokerage
\* authenticated it creates the monitoring task
LiveAuthReturns(r, outcome) ==
  /\ api.h[r].pc = "live_auth"
  /\ outcome = "ok" => api.monitors < MaxMonitors
  /\ api' = CASE outcome = "ok" ->
                   [ respond(r, "/live/start", StatusOK, "message")
                       EXCEPT !.monitors = @ + 1 ]
              [] outcome = "fail" -> respond(r, "/live/start", StatusOK, "error")
              [] outcome = "raise" ->
                   respond(r, "/live/start", StatusOK, "error")
  /\ UNCHANGED beside_api

\* GET /live/alerts
LiveAlerts(r, raises) ==
  /\ api.h[r].pc = "idle"
  /\ api' = IF raises THEN respond(r, "/live/alerts", StatusOK, "error")
            ELSE respond(r, "/live/alerts", StatusOK, "alerts")
  /\ UNCHANGED beside_api

NextApi ==
  \E r \in ApiReqs :
    \/ BacktestRunBegin(r)
    \/ \E outcome \in { "ok", "fail", "raise" } : BacktestAuthReturns(r, outcome)
    \/ \E ok \in BOOLEAN : BacktestRunReturns(r, ok)
    \/ \E readable \in BOOLEAN : BacktestResults(r, readable)
    \/ LiveStartBegin(r)
    \/ \E outcome \in { "ok", "fail", "raise" } : LiveAuthReturns(r, outcome)
    \/ \E raises \in BOOLEAN : LiveAlerts(r, raises)

\* SpecApi: requests to the back-test and live-monitoring endpoints,
\* overlapping at their awaits
SpecApi == InitIdle /\ [][NextApi]_vars

\* ============================================================== DataEngine

RECURSIVE SeqsUpTo(_, _)
SeqsUpTo(S, n) ==
  IF n = 0 THEN { << >> }
  ELSE LET shorter == SeqsUpTo(S, n - 1)
       IN shorter \cup { Append(q, x) : q \in { z \in shorter : Len(z) = n - 1 },
                                        x \in S }

\* utils.clean_ohlc_data; a candle 0 stands for one that it removes (a NaN,
\* or a high below the low)
clean_ohlc_data(df) == [ df EXCEPT !.rows = SelectSeq(@, LAMBDA x : x # 0) ]

\* _load_from_cache: no file, an empty list, or records without a
\* 'timestamp' field (KeyError, swallowed) give None
load_from_cache(file) ==
  IF file = NoFile \/ file.rows = << >> \/ file.field # "timestamp"
  THEN NoTable
  ELSE [ name |-> "timestamp", rows |-> file.rows ]

\* a call of fetch_ohlc_data returns df; a caching call's rows are
\* remembered for its key
fetch_returns(c, df, wrote) ==
  LET call == de.call[c]
  IN [ de EXCEPT
         !.call[c] = [ call EXCEPT !.pc = "idle", !.result = df,
                                   !.wrote = wrote ],
         !.returned[call.key] = IF call.use_cache THEN df ELSE @,
         \* _save_to_cache: df.reset_index().to_dict('records'); reset_index
         \* turns the index into a column under the index's name, or under
         \* "index" when it has none
         !.cache[call.key] =
           IF wrote
           THEN [ field |-> IF df.name = "" THEN "index" ELSE df.name,
                  rows |-> df.rows ]
           ELSE @ ]

\* fetch_ohlc_data from its entry to its return on a cache hit, or to the
\* await of broker.fetch_ohlc
FetchBegin(c, key, use_cache) ==
  /\ de.call[c].pc = "idle"
  /\ LET cached == IF use_cache THEN load_from_cache(de.cache[key])
                   ELSE NoTable
         call == [ pc |-> "fetch", key |-> key, use_cache |-> use_cache,
                   read |-> use_cache, fetched |-> cached = NoTable,
                   wrote |-> FALSE, result |-> NoTable,
                   prior |-> IF use_cache THEN de.returned[key] ELSE NoTable ]
     IN IF cached # NoTable
        THEN de' = [ de EXCEPT !.call[c] = [ call EXCEPT !.pc = "idle",
                                                         !.result = cached ],
                               !.returned[key] = cached ]
        ELSE de' = [ de EXCEPT !.call[c] = call ]
  /\ UNCHANGED beside_de

\* fetch_ohlc_data resumes from broker.fetch_ohlc: a failure (or an
\* exception) and a table without rows give an empty table; rows are
\* cleaned, saved if the cache is in use, and returned
FetchReturns(c, success, rows) ==
  /\ de.call[c].pc = "fetch"
  /\ ~success => rows = << >>
  /\ LET \* the index of the table each adapter's fetch_ohlc builds:
         \* DhanAdapter passes index=timestamps, which leaves it unnamed;
         \* ZerodhaAdapter calls set_index('timestamp')
         index_name == IF de.broker = "dhan" THEN "" ELSE "timestamp"
         df == clean_ohlc_data([ name |-> index_name, rows |-> rows ])
     IN de' = IF success /\ rows # << >>
              THEN fetch_returns(c, df, de.call[c].use_cache)
              ELSE fetch_returns(c, [ name |-> "", rows |-> << >> ], FALSE)
  /\ UNCHANGED beside_de

\* clear_cache
ClearCache ==
  /\ \E k \in CacheKeys : de.cache[k] # NoFile
  /\ de' = [ de EXCEPT !.cache = [ k \in CacheKeys |-> NoFile ],
                       !.returned = [ k \in CacheKeys |-> NoTable ] ]
  /\ UNCHANGED beside_de

InitData ==
  /\ InitComponents
  /\ de \in { NewDataEngine(broker) : broker \in Adapters }
  /\ pf = NoCall
  /\ now = 33270
  /\ settings = [ mode |-> "dry_run", run_strategy |-> FALSE,
                  one_trade_per_day |-> TRUE, quantity |-> 1,
                  scheduler_candle_minutes |-> 20 ]

NextData ==
  \/ \E c \in Callers, key \in CacheKeys, use_cache \in BOOLEAN :
       FetchBegin(c, key, use_cache)
  \/ \E c \in Callers, success \in BOOLEAN, rows \in SeqsUpTo({ 0, 1 }, MaxRows) :
       FetchReturns(c, success, rows)
  \/ ClearCache

\* SpecData: calls of fetch_ohlc_data, overlapping at the brokerage fetch
SpecData == InitData /\ [][NextData]_vars

\* ====================================================== brokerage adapters

\* the operations of the adapter contract other than authenticate
Operations == { "get_spot", "get_option_instrument_token", "fetch_ohlc",
                "subscribe_live_ticks", "place_order", "get_margin",
                "get_order_status", "cancel_order", "get_positions",
                "close_position" }

\* variant of the operations' first test that lets every call through
refuses_never(adapter) == FALSE

\* the first test of every operation: if not self.authenticated
refuses(adapter) == ~adapter.authenticated

\* authenticate from its entry.  DhanAdapter returns a failure without a key
\* pair; with one it takes the key as the access token, sets the flag, which
\* settles the call's success, and probes a quote.  ZerodhaAdapter posts the
\* credentials and waits for the answer.
AuthenticateBegin(a, has_keys) ==
  /\ ad[a].pc = "idle"
  /\ ad' = [ ad EXCEPT ![a] =
       IF a = "dhan"
       THEN IF has_keys
            THEN [ @ EXCEPT !.authenticated = TRUE, !.accepted = TRUE,
                            !.pc = "probe" ]
            ELSE [ @ EXCEPT !.rejected = TRUE, !.response =
                     [ op |-> "authenticate", success |-> FALSE,
                       error |-> "API key and secret are required",
                       network |-> FALSE, before_auth |-> ~ad[a].accepted ] ]
       ELSE [ @ EXCEPT !.pc = "post" ] ]
  /\ UNCHANGED beside_ad

\* authenticate resumes: DhanAdapter reports success whatever the probe
\* gave; ZerodhaAdapter sets the flag on a 200 answer and reports a failure
\* otherwise, leaving the flag as it was
AuthenticateReturns(a, ok) ==
  /\ ad[a].pc # "idle"
  /\ LET good == ad[a].pc = "probe" \/ ok
     IN ad' = [ ad EXCEPT ![a] =
          [ @ EXCEPT !.pc = "idle",
                     !.authenticated = IF good THEN TRUE ELSE @,
                     !.accepted = IF good THEN TRUE ELSE @,
                     !.rejected = IF good THEN @ ELSE TRUE,
                     !.response =
                       [ op |-> "authenticate", success |-> good,
                         error |-> IF good THEN "none" ELSE "rejected",
                         network |-> TRUE,
                         before_auth |-> ~ad[a].accepted ] ] ]
  /\ UNCHANGED beside_ad

\* any other operation: refused without a request if the flag is not set,
\* otherwise carried out, with or without success
Operate(a, op, ok) ==
  /\ ad' = [ ad EXCEPT ![a].response =
       IF refuses(ad[a])
       THEN [ op |-> op, success |-> FALSE, error |-> "Not authenticated",
              network |-> FALSE, before_auth |-> ~ad[a].accepted ]
       ELSE [ op |-> op, success |-> ok,
              error |-> IF ok THEN "none" ELSE "failed",
              \* DhanAdapter.get_option_instrument_token builds the
              \* identifier locally, every other operation makes a request
              network |-> ~(a = "dhan" /\ op = "get_option_instrument_token"),
              before_auth |-> ~ad[a].accepted ] ]
  /\ UNCHANGED beside_ad

NextAdapters ==
  \E a \in Adapters :
    \/ \E has_keys \in BOOLEAN : AuthenticateBegin(a, has_keys)
    \/ \E ok \in BOOLEAN : AuthenticateReturns(a, ok)
    \/ \E op \in Operations, ok \in BOOLEAN : Operate(a, op, ok)

\* SpecAdapters: the two adapters, operations arriving before, during and
\* after authentication
SpecAdapters == InitIdle /\ [][NextAdapters]_vars

\* ================================================ State Manager, called directly

\* the keys of the state document that hold lists
ListKeys == { "open_positions", "today_trades" }

\* completed trades and positions handed to the State Manager
a_trade(pnl) == [ position |-> 1, pnl |-> pnl ]
a_position(id) == [ id |-> id, entry_price |-> 1000 ]

\* reset_daily_stats
reset_daily_stats(doc) ==
  update_state(doc, [ today_trades |-> << >>, last_run_time |-> NoTime,
                      last_candle_time |-> NoTime, error_count |-> 0,
                      last_error |-> "None" ])

\* the caller's record after a State Manager operation that gave the keys
\* in `rebound` a new object: a list the caller's document shared with the
\* manager stays with the caller as it was
sm_called(op, arg, ret, rebound) ==
  [ smc EXCEPT !.op = op, !.arg = arg, !.ret = ret, !.before = sm,
               !.at = now, !.ops = @ + 1,
               !.shares = @ \ rebound,
               !.view = [ k \in DOMAIN smc.view |->
                            IF k \in (smc.shares \cap rebound) THEN sm[k]
                            ELSE smc.view[k] ] ]

\* an operation that changes the document to doc2 and saves it
SmOperation(op, arg, doc2, ok, rebound) ==
  /\ smc.ops < MaxOps
  /\ sm' = doc2
  /\ disk' = safe_json_save(doc2, ok)
  /\ smc' = sm_called(op, arg, ok, rebound)
  /\ UNCHANGED <<now, beside_sm>>

\* get_state: self._state.copy() copies the document's top level; the lists
\* in the copy are the manager's list objects
SmGetState ==
  /\ smc.ops < MaxOps
  /\ smc' = [ sm_called("get_state", << >>, TRUE, {})
                EXCEPT !.has_view = TRUE, !.view = sm, !.shares = ListKeys ]
  /\ UNCHANGED <<sm, disk, now, beside_sm>>

\* the caller appends an entry to a list of the document get_state gave it
CallerAppends(k) ==
  /\ smc.has_view
  /\ smc.ops < MaxOps
  /\ LET entry == IF k = "today_trades" THEN a_trade(50) ELSE a_position(9)
     IN IF k \in smc.shares
        THEN /\ sm' = [ sm EXCEPT ![k] = Append(@, entry) ]
             /\ smc' = [ sm_called("caller_appends", k, TRUE, {})
                           EXCEPT !.view[k] = Append(sm[k], entry) ]
        ELSE /\ smc' = [ sm_called("caller_appends", k, TRUE, {})
                           EXCEPT !.view[k] = Append(@, entry) ]
             /\ UNCHANGED sm
  /\ UNCHANGED <<disk, now, beside_sm>>

\* the caller replaces a top-level value of the document get_state gave it
CallerSets ==
  /\ smc.op = "get_state"
  /\ smc.ops < MaxOps
  /\ smc' = [ sm_called("caller_sets", "running", TRUE, {})
                EXCEPT !.view.running = ~@ ]
  /\ UNCHANGED <<sm, disk, now, beside_sm>>

NextState ==
  \/ \E pnl \in { -50, 50 }, ok \in BOOLEAN :
       SmOperation("add_trade", a_trade(pnl), add_trade(sm, a_trade(pnl)), ok, {})
  \/ \E ok \in BOOLEAN :
       SmOperation("reset_daily_stats", << >>, reset_daily_stats(sm), ok,
                   { "today_trades" })
  \/ \E u \in { [ running |-> TRUE ],
                [ total_pnl |-> 10, error_count |-> 2 ],
                [ today_trades |-> << >>, error_count |-> 0 ],
                [ note |-> "checked" ],
                [ last_state_update |-> 0 ] },
        ok \in BOOLEAN :
       SmOperation("update_state", u, update_state(sm, u), ok, DOMAIN u)
  \/ \E ok \in BOOLEAN :
       /\ Len(sm.open_positions) < MaxPos
       /\ LET p == a_position(Len(sm.open_positions) + 1)
          IN SmOperation("add_position", p, add_position(sm, p), ok, {})
  \/ \E id \in 1..MaxPos, ok \in BOOLEAN :
       SmOperation("remove_position", id, remove_position(sm, id), ok,
                   { "open_positions" })
  \/ SmGetState
  \/ \E k \in ListKeys : CallerAppends(k)
  \/ CallerSets
  \/ Tick

\* SpecState: one caller works on the State Manager while the clock runs
SpecState == InitIdle /\ [][NextState]_vars

\* ============================================ pure functions, called directly

\* the frozen service around a caller of a pure function
InitPure ==
  /\ InitComponents
  /\ de = NewDataEngine("dhan")
  /\ now = 33270
  /\ settings = [ mode |-> "dry_run", run_strategy |-> FALSE,
                  one_trade_per_day |-> TRUE, quantity |-> 1,
                  scheduler_candle_minutes |-> 20 ]

\* the caller gets the function's value for the arguments it holds
returns(fn, value) ==
  /\ pf.fn = "none"
  /\ pf' = [ pf EXCEPT !.fn = fn, !.out = value ]
  /\ UNCHANGED <<core, lm, cm, api, de, ad, smc>>

\* ---- utils.py, strike rounding

\* py_round is Python's round(num / den) for den > 0: the nearest integer,
\* and an exact half goes to the even neighbour
round_to_strike(price, strike_rounding) ==
  LET py_round(num, den) ==
        LET q == num \div den
            r == num % den
        IN IF 2 * r < den THEN q
           ELSE IF 2 * r > den THEN q + 1
           ELSE IF q % 2 = 0 THEN q ELSE q + 1
  IN py_round(price, strike_rounding) * strike_rounding

get_nearest_strike(spot, strike_rounding) ==
  round_to_strike(spot, strike_rounding)

\* spot prices around the test's 18500..18600 and the two strike steps of
\* the index options
InitStrike ==
  /\ InitPure
  /\ pf \in { [ NoCall EXCEPT !.in = [ price |-> 18400 + 25 * k, unit |-> u ] ] :
                k \in 0..MaxStrikeSteps, u \in { 50, 100 } }

NextStrike ==
  \/ returns("round_to_strike", round_to_strike(pf.in.price, pf.in.unit))
  \/ returns("get_nearest_strike", get_nearest_strike(pf.in.price, pf.in.unit))

\* SpecStrike: one call of a strike-rounding function
SpecStrike == InitStrike /\ [][NextStrike]_vars

\* ---- utils.get_next_candle_time

GetNextCandleTime ==
  returns("get_next_candle_time",
          get_next_candle_time(pf.in.current_time, pf.in.candle_minutes))

\* the times of one day every 45 minutes from midnight, at the first and the
\* last second of the minute, in seconds since midnight
InitCandle ==
  /\ InitPure
  /\ pf \in { [ NoCall EXCEPT !.in = [ current_time |-> t, candle_minutes |-> c ] ] :
                t \in { x \in { 2700 * k + sec : k \in 0..MaxCandleSteps,
                                                sec \in { 0, 59 } } : x < 86400 },
                c \in { 1, 7, 20, 60 } }

\* SpecCandle: one call of get_next_candle_time
SpecCandle == InitCandle /\ [][GetNextCandleTime]_vars

\* ---- backtest_engine.py

\* BacktestEngine._get_expiry_dates. A date is the number of its day, day 0
\* being a Monday, so that d % 7 is datetime.weekday(); start_date and
\* end_date carry the same time of day (run_backtest lines 92-93), which the
\* dates the loop derives from start_date keep
get_expiry_dates(start_date, end_date) ==
  LET RECURSIVE loop(_, _)
      loop(current_date, expiry_dates) ==
        IF ~(current_date <= end_date) THEN expiry_dates
        ELSE LET days_ahead == 3 - (current_date % 7)
                 next_thursday ==
                   current_date + (IF days_ahead <= 0 THEN days_ahead + 7
                                   ELSE days_ahead)
             IN loop(next_thursday + 1,
                     IF next_thursday <= end_date
                     THEN Append(expiry_dates, next_thursday)
                     ELSE expiry_dates)
  IN loop(start_date, << >>)

\* BacktestEngine._generate_trade lines 409-421, the lot size: amounts are
\* whole rupees, int() drops the fraction of a quotient, and 20% of the
\* balance is taken exactly
generate_trade(entry_price, current_balance) ==
  LET int(num, den) == IF num >= 0 THEN num \div den ELSE -((-num) \div den)
      max(a, b) == IF a >= b THEN a ELSE b
      min(a, b) == IF a <= b THEN a ELSE b
      max_quantity == IF MaxTradeAmount * 5 <= current_balance
                      THEN int(MaxTradeAmount, entry_price)
                      ELSE int(current_balance, 5 * entry_price)
      min_quantity == int(MinTradeAmount, entry_price)
      quantity == IF entry_price > 0
                  THEN max(min_quantity, min(max_quantity, 10))
                  ELSE 1
  IN [ quantity |-> quantity, investment |-> quantity * entry_price ]

\* the windows start on each day of a week and last up to MaxWindowDays
\* days; the entry prices are multiples of 50 rupees and the balances go
\* from nothing to the initial 100000
InitBacktest ==
  /\ InitPure
  /\ pf \in { [ NoCall EXCEPT !.in = [ start_date |-> d, end_date |-> d + n ] ] :
                d \in 0..6, n \in 0..MaxWindowDays }
          \cup
          { [ NoCall EXCEPT !.in = [ entry_price |-> 50 * k, current_balance |-> b ] ] :
                k \in 1..MaxPriceSteps,
                b \in { 0, 5000, 12000, 25000, 100000 } }

NextBacktest ==
  \/ /\ "start_date" \in DOMAIN pf.in
     /\ returns("get_expiry_dates",
                get_expiry_dates(pf.in.start_date, pf.in.end_date))
  \/ /\ "entry_price" \in DOMAIN pf.in
     /\ returns("generate_trade",
                generate_trade(pf.in.entry_price, pf.in.current_balance))

\* SpecBacktest: one call of a function of the backtest
SpecBacktest == InitBacktest /\ [][NextBacktest]_vars

\* ---- AnalysisEngine.should_exit_position

\* an Optional value is the set of its values: None is the empty set and a
\* number x is { x }
None == {}
Some(x) == { x }
the(opt) == CHOOSE x \in opt : TRUE

\* dict.get(key, default)
get(d, key, default) == IF key \in DOMAIN d THEN d[key] ELSE default

\* a channel line's level after the given number of hours
level(line, hours) == line.slope * hours + line.intercept

\* the body of should_exit_position in the order of its statements: a
\* comparison of None with a number raises TypeError, and the except clause
\* turns every exception into (False, "error")
should_exit_position(position, current_price, channel, hours_since_start) ==
  LET target_price == get(position, "target_price", Some(0))
      stop_loss_price == get(position, "stop_loss_price", Some(0))
      side == get(position, "side", "long")
      after_stop ==
        IF /\ channel # None
           /\ the(channel).valid
           /\ level(the(channel).lower_line, hours_since_start) <= current_price
           /\ current_price <= level(the(channel).upper_line, hours_since_start)
        THEN <<TRUE, "channel_reentry">>
        ELSE <<FALSE, "">>
      after_target ==
        IF stop_loss_price = None THEN <<FALSE, "error">>
        ELSE IF /\ the(stop_loss_price) > 0
                /\ \/ side = "long" /\ current_price <= the(stop_loss_price)
                   \/ side = "short" /\ current_price >= the(stop_loss_price)
        THEN <<TRUE, "stop_loss">>
        ELSE after_stop
  IN IF target_price = None THEN <<FALSE, "error">>
     ELSE IF /\ the(target_price) > 0
             /\ \/ side = "long" /\ current_price >= the(target_price)
                \/ side = "short" /\ current_price <= the(target_price)
     THEN <<TRUE, "target_hit">>
     ELSE after_target

\* a position's target or stop-loss entry: absent from the dict, None (what
\* generate_trade_signal leaves when it finds no Fibonacci levels), zero or
\* a price on either side of the entry
PriceFields(key) ==
  { [ k \in {} |-> 0 ] } \cup
  { key :> v : v \in { None, Some(0), Some(80), Some(120) } }

ShouldExitPosition ==
  returns("should_exit_position",
          should_exit_position(pf.in.position, pf.in.current_price,
                               pf.in.channel, pf.in.hours))

\* the positions are entered at 100, long or short; the channel is absent,
\* not valid, or valid with a band that is 95..115 one hour on
InitExit ==
  /\ InitPure
  /\ pf \in { [ NoCall EXCEPT !.in =
                  [ position |-> [ entry_price |-> 100, side |-> side ]
                                   @@ target @@ stop,
                    current_price |-> 75 + 5 * k,
                    channel |-> channel, hours |-> 1 ] ] :
                side \in { "long", "short" },
                target \in PriceFields("target_price"),
                stop \in PriceFields("stop_loss_price"),
                k \in 0..MaxExitSteps,
                channel \in { None } \cup
                  { Some([ valid |-> v,
                           upper_line |-> [ slope |-> 5, intercept |-> 110 ],
                           lower_line |-> [ slope |-> 5, intercept |-> 90 ] ]) :
                      v \in BOOLEAN } }

\* SpecExit: one call of should_exit_position
SpecExit == InitExit /\ [][ShouldExitPosition]_vars

\* ---- AnalysisEngine.generate_trade_signal

\* what a series is to the analysis: the channel the regression fits to its
\* peaks and troughs, the crossover of its oscillator and where its last
\* close lies relative to the channel's band
Series ==
  [ valid : BOOLEAN, is_upward : BOOLEAN,
    crossover : { "bullish", "bearish", "none" },
    close : { "above", "inside", "below" } ]

\* the rows of a DatetimeIndex are Timestamps, those of a RangeIndex are
\* ints. An int has no total_seconds(): on a RangeIndex the line fit raises
\* and the except clause returns the invalid channel
detect_parallel_channel(index, series) ==
  IF index = "RangeIndex" THEN [ valid |-> FALSE, is_upward |-> FALSE ]
  ELSE [ valid |-> series.valid, is_upward |-> series.is_upward ]

check_breakout_20m(index, series, channel) ==
  IF ~channel.valid THEN "None"
  ELSE IF index = "RangeIndex" THEN "None"
  ELSE IF series.close = "above" THEN "breakout_up"
  ELSE IF series.close = "below" THEN "breakout_down"
  ELSE "None"

\* the statements of a breakout branch that can raise: strftime on the last
\* index value needs a Timestamp, and int() of a Timestamp is a TypeError
generate_trade_signal(index, call, put) ==
  LET call_channel == detect_parallel_channel(index, call)
      put_channel == detect_parallel_channel(index, put)
      call_kst == [ crossover_direction |-> call.crossover ]
      put_kst == [ crossover_direction |-> put.crossover ]
      call_condition ==
        call_channel.is_upward /\ call_kst.crossover_direction = "bullish"
      put_condition ==
        ~put_channel.is_upward /\ put_kst.crossover_direction = "bearish"
      call_breakout == check_breakout_20m(index, call, call_channel)
      put_breakout == check_breakout_20m(index, put, put_channel)
      strftime_raises == index = "RangeIndex"
      int_raises == index = "DatetimeIndex"
      built(signal_type, option_type) ==
        IF strftime_raises \/ int_raises THEN None
        ELSE Some([ signal_type |-> signal_type, option_type |-> option_type ])
  IN IF ~call_channel.valid \/ ~put_channel.valid THEN None
     ELSE IF ~(call_condition /\ put_condition) THEN None
     ELSE IF call_breakout = "breakout_up" /\ put_breakout = "breakout_down"
     THEN built("BUY_CALL", "CE")
     ELSE IF call_breakout = "breakout_down" /\ put_breakout = "breakout_up"
     THEN built("BUY_PUT", "PE")
     ELSE None

GenerateTradeSignal ==
  returns("generate_trade_signal",
          generate_trade_signal(pf.in.index, pf.in.call, pf.in.put))

InitSignal ==
  /\ InitPure
  /\ pf \in { [ NoCall EXCEPT !.in = [ index |-> index, call |-> call,
                                      put |-> put ] ] :
                index \in { "DatetimeIndex", "RangeIndex" },
                call \in Series, put \in Series }

\* SpecSignal: one call of generate_trade_signal
SpecSignal == InitSignal /\ [][GenerateTradeSignal]_vars

\* ============================================================ specifications

\* the scheduler's and the engine's steps with what their environment hands
\* them: how the data fetch and the analysis end and the signal they give,
\* and the fill price a brokerage reports (0 stands for "no fill price in
\* the reply")
SchedulerStep ==
  \/ \E t \in Tasks : SchedLoopTop(t)
  \/ \E t \in Tasks, ok \in BOOLEAN : SchedSpotReturns(t, ok)
  \/ \E t \in Tasks, tok \in BOOLEAN,
        o \in { "empty", "poor_quality", "raise", "no_signal", "signal" },
        sig \in { [ entry_price |-> 1000, quantity |-> SignalQuantity ] } :
       SchedDataReturns(t, o, sig, tok)
  \/ \E t \in Tasks, m \in BOOLEAN, tok \in BOOLEAN : SchedMarginReturns(t, m, tok)
  \/ \E t \in Tasks, o \in BrokerOutcomes, f \in { 0, 1005 } :
       SchedOrderReturns(t, o, f)
  \/ \E t \in Tasks : MonitorSweep(t)

\* Spec: the control API, the scheduler and the engine between two clock
\* ticks (every interleaving of the handlers and the tasks; no timer expires)
Next ==
  \/ SchedulerStep
  \/ \E r \in Reqs, b \in StartBodies : StartBegin(r, b)
  \/ \E r \in Reqs, ok \in BOOLEAN : StartAuthReturns(r, ok)
  \/ \E t \in Tasks : SchedTaskCancelled(t)
  \/ \E t \in Tasks : MonitorTaskCancelled(t)
  \/ \E r \in Reqs, f \in BOOLEAN : StopBegin(r, f)
  \/ \E r \in Reqs : StopSchedulerTaskDone(r)
  \/ \E r \in Reqs : StopMonitorTaskDone(r)
  \/ \E r \in Reqs : ForceBegin(r)
  \/ \E r \in Reqs, o \in BrokerOutcomes : ExitOrderReturns(r, o)

Spec == Init /\ [][Next]_vars

\* SpecClock: the same service while the clock advances, with an operator
\* whose requests do not overlap (one handler at a time)
NextClock ==
  \/ Tick
  \/ SchedulerStep
  \/ \E t \in Tasks : SchedTaskCancelled(t)
  \/ \E t \in Tasks : MonitorTaskCancelled(t)
  \/ \E b \in StartBodies : StartBegin(1, b)
  \/ \E ok \in BOOLEAN : StartAuthReturns(1, ok)
  \/ \E f \in BOOLEAN : StopBegin(1, f)
  \/ StopSchedulerTaskDone(1)
  \/ StopMonitorTaskDone(1)
  \/ ForceBegin(1)
  \/ \E o \in BrokerOutcomes : ExitOrderReturns(1, o)

SpecClock == Init /\ [][NextClock]_vars

\* ===================================================================== claims

\* C2: at any time at most one strategy cycle is in progress and at most one
\* scheduler main-loop task exists (a task already cancelled by stop is not
\* counted), whatever start requests overlap.
C2_SingleLoopTask ==
  /\ Cardinality({ t \in Tasks :
                     /\ stask[t].pc \in { "spot", "data", "margin", "order" }
                     /\ ~stask[t].cancel }) <= 1
  /\ Cardinality({ t \in Tasks : stask[t].pc \notin { "none", "done" }
                                   /\ ~stask[t].cancel }) <= 1

\* C3: when TradingScheduler.stop() has returned (the stop handler answers),
\* every loop task and every monitor task has ended and is_running is false
\* on the scheduler and on the engine.
C3_StopLeavesNothingRunning ==
  [][ (\E r \in Reqs : h[r].kind = "stop" /\ h'[r].kind = "none")
        => /\ ~sched'.is_running
           /\ ~eng'.is_running
           /\ \A t \in Tasks : /\ stask'[t].pc \in { "none", "done" }
                               /\ mtask'[t].pc \in { "none", "done" } ]_vars

C5_RejectedSignalChangesNothing ==
  [][ \A t \in Tasks :
        ( /\ stask[t].pc \in { "data", "margin", "order" }
          /\ ~stask[t].cancel /\ ~stask'[t].cancel
          /\ stask'[t] # stask[t] )
        => /\ stask'[t].exec \in { "none", "true", "false" }
           /\ stask[t].pc \in { "margin", "order" }
                => (sm'.last_error = "Strategy error"
                      => sm.last_error = "Strategy error")
           /\ ~(stask'[t].pc \in { "sleep", "ready" } /\ stask'[t].exec = "true")
                => /\ eng'.active_positions = eng.active_positions
                   /\ sm'.open_positions = sm.open_positions ]_vars

\* C5 witness: an execute_signal call has returned false while a position
\* opened by an earlier call is active.
C5_Witness ==
  \E t \in Tasks : stask[t].exec = "false" /\ Len(eng.active_positions) > 0

C8_AuthFailureReported ==
  [][ (\E r \in Reqs : h[r].pc = "auth" /\ h'[r].pc = "idle" /\ last'.auth = "failed")
        => /\ UNCHANGED <<sched, eng, stask, mtask, sm>>
           /\ last'.code # 200
           /\ last'.broadcast = "none" ]_vars

\* C9: start_strategy while the scheduler is running and stop_strategy while
\* it is not are answered 400 and change nothing: settings, scheduler,
\* engine, tasks, State Manager and its file stay as they were, no override
\* is applied, no position is force closed and nothing is broadcast.
C9_RejectedRequestChangesNothing ==
  [][ LET answered(kind) == last'.seq # last.seq /\ last'.kind = kind /\ h' = h
          start_arrives == \/ \E r \in Reqs : h[r].kind = "none" /\ h'[r].kind = "start"
                           \/ answered("start")
          stop_arrives == \/ \E r \in Reqs : h[r].kind = "none" /\ h'[r].kind = "stop"
                          \/ answered("stop")
      IN ( \/ start_arrives /\ sched.is_running
           \/ stop_arrives /\ ~sched.is_running )
         => /\ last'.seq = last.seq + 1
            /\ last'.code = 400
            /\ last'.broadcast = "none"
            /\ UNCHANGED <<settings, sched, stask, eng, mtask, sm, disk, h>> ]_vars

\* C9 witness: a start request carrying overrides was answered 400 while the
\* scheduler was running with a position open.
C9_Witness ==
  /\ last.kind = "start" /\ last.code = 400
  /\ sched.is_running
  /\ Len(eng.active_positions) > 0

\* C10: a strategy cycle starts only while run_strategy is on and the time of
\* day is within [trading_start, trading_end], both ends included; while
\* either is false a running loop only sleeps IdleSleep seconds and checks
\* again.
C10_CycleOnlyWhenEnabledInHours ==
  [][ \A t \in Tasks :
        LET allowed == /\ settings.run_strategy
                       /\ TradingStart <= now /\ now <= TradingEnd
        IN /\ (stask[t].pc \notin { "spot", "data", "margin", "order" }
                 /\ stask'[t].pc \in { "spot", "data", "margin", "order" })
               => allowed
           /\ ( /\ stask[t].pc \in { "ready", "sleep" }
                /\ ~stask[t].cancel /\ ~stask'[t].cancel
                /\ stask'[t] # stask[t]
                /\ sched.is_running
                /\ ~allowed )
               => stask'[t].pc = "sleep" /\ stask'[t].wake = now + IdleSleep ]_vars

\* C10 witness: after the market has closed, a loop with run_strategy on has
\* looked at the clock and gone back to sleep.
C10_Witness ==
  \E t \in Tasks :
    /\ settings.run_strategy /\ sched.is_running
    /\ now > TradingEnd
    /\ stask[t].pc = "sleep" /\ stask[t].wake = now + IdleSleep

\* C11: a strategy cycle starts only when no run has been recorded yet or at
\* least scheduler_candle_minutes * 60 seconds have passed since the recorded
\* end of the previous one, even when the sleep to the next candle boundary
\* was shorter than that.
C11_CyclesSeparatedByInterval ==
  [][ \A t \in Tasks :
        (stask[t].pc \notin { "spot", "data", "margin", "order" }
           /\ stask'[t].pc \in { "spot", "data", "margin", "order" })
        => \/ sched.last_run_time = NoTime
           \/ now - sched.last_run_time >= settings.scheduler_candle_minutes * 60
    ]_vars

\* C11 witness: the loop woke at the candle boundary less than one interval
\* after the recorded run, started no cycle and waits DueSleep seconds.
C11_Witness ==
  \E t \in Tasks :
    /\ sched.is_running /\ sched.last_run_time # NoTime
    /\ sched.next_run_time <= now
    /\ now - sched.last_run_time < settings.scheduler_candle_minutes * 60
    /\ stask[t].pc = "sleep" /\ stask[t].wake = now + DueSleep

\* C12: an exception raised inside a strategy cycle or in the rest of the
\* loop body never ends the loop task: each exception raises error_count by
\* one and sets last_error, the scheduler stays running and the task goes on
\* to its next sleep, from which a later cycle is run.
C12_LoopSurvivesExceptions ==
  [][ \A t \in Tasks :
        ( /\ stask[t].pc \in { "spot", "data", "margin", "order" }
          /\ ~stask[t].cancel /\ ~stask'[t].cancel
          /\ stask'[t] # stask[t] )
        => /\ stask'[t].pc \in { "spot", "data", "margin", "order", "sleep", "ready" }
           /\ stask'[t].pc \in { "spot", "data", "margin", "order" }
                => sm'.error_count = sm.error_count
           /\ stask'[t].pc \in { "sleep", "ready" }
                => /\ sm'.error_count = sm.error_count + stask'[t].raised
                   /\ stask'[t].raised > 0
                        => /\ sm'.last_error \in { "Strategy error", "Scheduler error" }
                           /\ sched'.is_running = sched.is_running
                           /\ stask'[t].wake # NoTime ]_vars

\* C12 witness: a loop iteration raised both in the cycle and in the loop
\* body, both exceptions were counted, and the task is running a later cycle.
C12_Witness ==
  \E t \in Tasks :
    /\ stask[t].pc \in { "spot", "data", "margin", "order" }
    /\ stask[t].raised = 2
    /\ sm.error_count = 2 /\ sm.last_error = "Scheduler error"
    /\ sched.is_running

\* C13: a cycle that ends because the spot price is not positive, the
\* call/put data is empty or a series fails the quality validation records
\* no signal in the State Manager, does not call execute_signal and opens no
\* position.
C13_AbortedCycleDoesNothing ==
  [][ \A t \in Tasks :
        ( /\ stask[t].pc \in { "spot", "data" }
          /\ ~stask[t].cancel /\ ~stask'[t].cancel
          /\ stask'[t].pc \in { "sleep", "ready" }
          /\ stask'[t].ended \in { "no_spot", "empty", "poor_quality" } )
        => /\ sm'.last_signal = sm.last_signal
           /\ sm'.last_signal_time = sm.last_signal_time
           /\ stask'[t].exec = "none"
           /\ eng' = eng
           /\ sm'.open_positions = sm.open_positions ]_vars

\* C13 witness: a cycle was abandoned for poor data quality after an earlier
\* cycle had recorded a signal and opened a position.
C13_Witness ==
  \E t \in Tasks :
    /\ stask[t].ended = "poor_quality"
    /\ sm.last_signal # NoSignal
    /\ Len(eng.active_positions) = 1

\* C14: in the alert log restricted to one contract, every kst_overlap alert
\* directly follows a pattern_detected alert and every breakout_confirmed
\* alert directly follows a kst_overlap alert.
C14_StagedAlertsInOrder ==
  \A i \in 1..Len(lm.option_contracts) :
    LET own == SelectSeq(lm.pattern_alerts,
                         LAMBDA a : a.contract = lm.option_contracts[i])
    IN \A k \in 1..Len(own) :
         /\ own[k].status = "kst_overlap"
              => k > 1 /\ own[k - 1].status = "pattern_detected"
         /\ own[k].status = "breakout_confirmed"
              => k > 1 /\ own[k - 1].status = "kst_overlap"

\* C14 witness: one contract has a pattern that went no further, then in a
\* later pass the full chain up to breakout_confirmed, while another
\* contract has alerts in the same log.
C14_Witness ==
  \E i, j \in 1..Len(lm.option_contracts) :
    LET own == SelectSeq(lm.pattern_alerts,
                         LAMBDA a : a.contract = lm.option_contracts[i])
    IN /\ i # j
       /\ Len(own) = 4
       /\ own[1].status = "pattern_detected"
       /\ own[4].status = "breakout_confirmed"
       /\ \E k \in 1..Len(lm.pattern_alerts) :
            lm.pattern_alerts[k].contract = lm.option_contracts[j]

\* C15: whenever initialize_contracts has returned True on a fresh Live
\* Monitor, the contract universe holds exactly 44 contracts: a CE and a PE
\* for NIFTY50, for BANKNIFTY and for each of the 20 stocks.
C15_UniverseIs44 ==
  lm.result = "true"
    => /\ Len(lm.option_contracts) = 44
       /\ \A c \in { index_options[k] : k \in 1..Len(index_options) }
               \cup { option_pair("STOCK", n)[k] : n \in 1..NStocks, k \in 1..2 } :
            Cardinality({ k \in 1..Len(lm.option_contracts) :
                            lm.option_contracts[k] = c }) = 1

\* C16 (app_backend.py, ConnectionManager.broadcast): a broadcast that has
\* ended has attempted a send to every socket that was registered when it
\* started, a failed send not keeping it from the sockets after it; no socket
\* whose send failed is in the registry, during the broadcast or after it;
\* and every socket it sent to successfully is still registered, unless the
\* socket has left or a send to it has failed in the meantime.
C16_BroadcastReachesAll ==
  \A b \in Broadcasts :
    LET r == cm.bc[b]
        registry == Elems(cm.active_connections)
    IN /\ r.failed \cap registry = {}
       /\ r.pc = "idle" =>
            /\ r.sent \cup r.failed = Elems(r.snap)
            /\ \A s \in r.sent \ (cm.left \cup cm.failed) : s \in registry

\* a broadcast has ended in which a send failed and a socket after the failed
\* one in the registry was sent the message and is still registered
C16_Witness ==
  \E b \in Broadcasts :
    LET r == cm.bc[b]
    IN /\ r.pc = "idle"
       /\ \E i, j \in 1..Len(r.snap) :
            /\ i < j
            /\ r.snap[i] \in r.failed
            /\ r.snap[j] \in r.sent
            /\ r.snap[j] \in Elems(cm.active_connections)

\* C17 (app_backend.py, run_backtest, start_live_monitoring_endpoint,
\* get_live_alerts_endpoint): every response of these endpoints whose body
\* is an {"error": ...} object carries the status 400, 404 or 500.
C17_ErrorsCarryErrorStatus ==
  \A r \in ApiReqs :
    api.h[r].body = "error" => api.h[r].status \in { 400, 404, 500 }

\* C18 (data_engine.py, fetch_ohlc_data): a call with use_cache=true that
\* begins after a caching call with the same arguments has returned rows
\* issues no brokerage fetch of its own and returns the same rows.
C18_SecondCallServedFromCache ==
  \A c \in Callers :
    LET call == de.call[c]
    IN (call.pc = "idle" /\ call.use_cache /\ call.prior.rows # << >>) =>
         /\ ~call.fetched
         /\ call.result.rows = call.prior.rows

\* C19 (data_engine.py, fetch_ohlc_data): no cache entry holds zero rows; a
\* call that returns an empty table has not written the cache; and a call
\* with use_cache=false has neither read nor written it.
C19_NoEmptyCacheEntry ==
  /\ \A k \in CacheKeys : de.cache[k] # NoFile => de.cache[k].rows # << >>
  /\ \A c \in Callers :
       LET call == de.call[c]
       IN /\ (call.pc = "idle" /\ call.result.rows = << >>) => ~call.wrote
          /\ ~call.use_cache => ~call.read /\ ~call.wrote

C21_AddTradeEffect ==
  smc.op = "add_trade" =>
    /\ sm.today_trades = Append(smc.before.today_trades, smc.arg)
    /\ sm.total_trades = smc.before.total_trades + 1
    /\ sm.total_pnl = smc.before.total_pnl + smc.arg.pnl
    /\ sm.win_rate[2] > 0
    /\ sm.win_rate[1] * sm.total_trades =
         100 * CountWins(sm.today_trades) * sm.win_rate[2]
    /\ \A k \in DOMAIN sm \ { "today_trades", "total_trades", "total_pnl",
                               "win_rate" } : sm[k] = smc.before[k]

\* add_trade has just recorded a losing trade after a winning one, at a time
\* later than the document's last stamp
C21_Witness ==
  /\ smc.op = "add_trade"
  /\ Len(sm.today_trades) = 2
  /\ CountWins(sm.today_trades) = 1
  /\ smc.arg.pnl < 0
  /\ sm.last_state_update # now

\* C22 (state_manager.py, add_trade and reset_daily_stats): right after
\* add_trade, whatever State Manager operations came before it, win_rate
\* is 100 times the number of today's trades with a positive pnl over the
\* number of today's trades.
C22_WinRateOverTodaysTrades ==
  smc.op = "add_trade" =>
    sm.win_rate[1] * Len(sm.today_trades) =
      100 * CountWins(sm.today_trades) * sm.win_rate[2]

\* C23 as stated (state_manager.py, update_state): right after
\* update_state(u) the document holds u's value for every key of u,
\* last_state_update is the time of the call, every other key is as it
\* was, and a true return value means the document is on the disk.
C23_UpdateStateAsStated ==
  smc.op = "update_state" =>
    /\ \A k \in DOMAIN smc.arg : sm[k] = smc.arg[k]
    /\ sm.last_state_update = smc.at
    /\ \A k \in DOMAIN sm \ (DOMAIN smc.arg \cup { "last_state_update" }) :
         sm[k] = smc.before[k]
    /\ smc.ret => disk = sm

\* C23 amended: right after update_state(u) the document holds u's value
\* for every key of u other than last_state_update, last_state_update is
\* the time of the call, every other key is as it was, and a true return
\* value means the document is on the disk; after a failed write the
\* document in memory holds the merged values all the same.
C23_UpdateStateMerges ==
  smc.op = "update_state" =>
    /\ \A k \in DOMAIN smc.arg \ { "last_state_update" } : sm[k] = smc.arg[k]
    /\ sm.last_state_update = smc.at
    /\ \A k \in DOMAIN sm \ (DOMAIN smc.arg \cup { "last_state_update" }) :
         sm[k] = smc.before[k]
    /\ smc.ret => disk = sm

\* update_state has merged two values at a time later than the last stamp
\* and its write has failed: the disk still holds the older document
C23_Witness ==
  /\ smc.op = "update_state"
  /\ ~smc.ret
  /\ sm.total_pnl = 10
  /\ disk.total_pnl # 10
  /\ smc.before.last_state_update # NoTime
  /\ smc.before.last_state_update < sm.last_state_update

\* C24 (state_manager.py, get_state): a change the caller makes to the
\* document get_state returned, to its top level or to its nested lists,
\* leaves the State Manager's document as it was.
C24_GetStateIsDefensiveCopy ==
  smc.op \in { "caller_appends", "caller_sets" } => sm = smc.before

\* C25: after the startup validation, whatever start requests have been
\* served, settings.mode is "dry_run" or "live".
C25_ModeIsValid == settings.mode \in { "dry_run", "live" }

\* C26 (utils.py, round_to_strike): the result is a multiple of the unit, no
\* other multiple is nearer to the price, and a price exactly halfway between
\* two multiples gives the higher one.
C26_RoundToStrikeHalfUp ==
  pf.fn = "round_to_strike" =>
    LET price == pf.in.price
        unit == pf.in.unit
        dist(m) == IF price >= m THEN price - m ELSE m - price
    IN /\ pf.out % unit = 0
       /\ \A m \in { pf.out - unit, pf.out + unit } : dist(pf.out) <= dist(m)
       /\ 2 * (price % unit) = unit => pf.out > price

\* C27 (AnalysisEngine.should_exit_position): the rules apply in a fixed
\* order, for long and for short positions. A positive target that the price
\* has reached gives (true, "target_hit"), whatever the stop-loss; otherwise
\* a positive stop-loss that the price has breached gives (true,
\* "stop_loss"), also for a position without a target; otherwise a valid
\* channel whose band contains the price gives (true, "channel_reentry");
\* otherwise the answer is (false, "").
C27_ExitRulesInPriority ==
  pf.fn = "should_exit_position" =>
    LET position == pf.in.position
        price == pf.in.current_price
        channel == pf.in.channel
        set(key) == IF key \in DOMAIN position /\ position[key] # None
                    THEN the(position[key]) ELSE 0
        target == set("target_price")
        stop == set("stop_loss_price")
        long == position.side = "long"
        target_reached ==
          target > 0 /\ IF long THEN price >= target ELSE price <= target
        stop_breached ==
          stop > 0 /\ IF long THEN price <= stop ELSE price >= stop
        in_band ==
          /\ channel # None
          /\ the(channel).valid
          /\ level(the(channel).lower_line, pf.in.hours) <= price
          /\ price <= level(the(channel).upper_line, pf.in.hours)
    IN pf.out = IF target_reached THEN <<TRUE, "target_hit">>
                ELSE IF stop_breached THEN <<TRUE, "stop_loss">>
                ELSE IF in_band THEN <<TRUE, "channel_reentry">>
                ELSE <<FALSE, "">>

\* C28 (AnalysisEngine.generate_trade_signal): a signal is returned exactly
\* when both channels are valid, the call channel is upward with a bullish
\* call oscillator, the put channel is downward with a bearish put
\* oscillator and the breakouts are opposite; call up with put down gives
\* BUY_CALL with CE, call down with put up gives BUY_PUT with PE, and every
\* other combination gives no signal.
C28_SignalExactlyOnOppositeBreakouts ==
  pf.fn = "generate_trade_signal" =>
    LET call_channel == detect_parallel_channel(pf.in.index, pf.in.call)
        put_channel == detect_parallel_channel(pf.in.index, pf.in.put)
        call_breakout == check_breakout_20m(pf.in.index, pf.in.call, call_channel)
        put_breakout == check_breakout_20m(pf.in.index, pf.in.put, put_channel)
        pattern ==
          /\ call_channel.valid /\ put_channel.valid
          /\ call_channel.is_upward /\ pf.in.call.crossover = "bullish"
          /\ ~put_channel.is_upward /\ pf.in.put.crossover = "bearish"
    IN pf.out =
         IF pattern /\ call_breakout = "breakout_up"
                    /\ put_breakout = "breakout_down"
         THEN Some([ signal_type |-> "BUY_CALL", option_type |-> "CE" ])
         ELSE IF pattern /\ call_breakout = "breakout_down"
                         /\ put_breakout = "breakout_up"
         THEN Some([ signal_type |-> "BUY_PUT", option_type |-> "PE" ])
         ELSE None

C31_OpenPositionsMirrorActive ==
  { sm.open_positions[i].id : i \in 1..Len(sm.open_positions) } = ActiveIds(eng)

\* a position is open while an earlier one has been exited, and the monitor
\* has gone back to sleep after the clock had advanced twice
C31_Witness ==
  /\ ActiveIds(eng) # {}
  /\ eng.trades_history # << >>
  /\ ticks >= 2
  /\ \E t \in Tasks : mtask[t].pc = "sleep" /\ mtask[t].wake > now

\* C32 (TradingScheduler.start, _should_run_now): while no cycle has been
\* recorded since the latest successful start (none at all, or the last one
\* before strategy_start_time), the loop task that start created, looking at
\* the clock with run_strategy on and the time within trading hours, enters
\* the strategy cycle at once; also after an earlier start and stop.
C32_FirstCycleWithoutWaiting ==
  [][ \A t \in Tasks :
        ( /\ sched.is_running /\ sched.scheduler_task = t
          /\ stask[t].pc \in { "ready", "sleep" }
          /\ ~stask[t].cancel /\ ~stask'[t].cancel
          /\ stask'[t] # stask[t]
          /\ settings.run_strategy
          /\ TradingStart <= now /\ now <= TradingEnd
          /\ \/ sched.last_run_time = NoTime
             \/ sched.last_run_time < sched.strategy_start_time )
        => stask'[t].pc = "spot" ]_vars

\* C33 (LiveMonitor.update_signal_outcomes): in every step a PastSignal that
\* is running stays running or becomes target_hit or stop_loss_hit; one that
\* is target_hit or stop_loss_hit keeps its outcome, current_price,
\* profit_loss_pct and profit_loss_amount; no signal is ever expired.
C33_OutcomeOnlyLeavesRunning ==
  [][ \A i \in 1..Len(lm.past_signals) :
        LET a == lm.past_signals[i]
            b == lm'.past_signals[i]
        IN /\ Len(lm'.past_signals) >= i
           /\ b.outcome # "expired"
           /\ a.outcome = "running"
                => b.outcome \in { "running", "target_hit", "stop_loss_hit" }
           /\ a.outcome # "running"
                => /\ b.outcome = a.outcome
                   /\ b.current_price = a.current_price
                   /\ b.profit_loss_pct = a.profit_loss_pct
                   /\ b.profit_loss_amount = a.profit_loss_amount ]_vars

\* C33 witness: the first signal hit its target in an earlier pass than the
\* one in which the second one hit its stop loss at a lower mark, and the
\* first still carries the mark of its own pass.
C33_Witness ==
  /\ Len(lm.past_signals) = 2
  /\ lm.stage = "sleep"
  /\ lm.past_signals[1].outcome = "target_hit"
  /\ lm.past_signals[2].outcome = "stop_loss_hit"
  /\ lm.past_signals[1].contract = lm.past_signals[2].contract
  /\ lm.past_signals[2].current_price < lm.past_signals[1].current_price

\* C34 (update_signal_outcomes, _check_contract_pattern): when a pass has
\* ended and start_monitoring sleeps, total_current_value is the sum over the
\* tracked signals of initial_investment * (1 + pct / 100), pct being the
\* locked-in profit_loss_pct of a terminal signal and the change of the
\* latest mark of a running one.
C34_TotalIsSumAfterPass ==
  LET value(sig) ==
        InitialInvestment +
        (IF sig.outcome # "running" THEN sig.profit_loss_pct
         ELSE ((sig.current_price - sig.entry_price) * 10000) \div sig.entry_price)
      RECURSIVE total(_)
      total(i) == IF i > Len(lm.past_signals) THEN 0
                  ELSE value(lm.past_signals[i]) + total(i + 1)
  IN lm.stage = "sleep" => lm.total_current_value = total(1)

\* C35 (_check_contract_pattern): there are as many PastSignals as
\* breakout_confirmed alerts and total_invested is initial_investment times
\* their number, in the state every step of the monitor leads to; in every
\* step the alert log and the signal list keep what they held, in order (a
\* signal being the same signal when its contract and its entry, target and
\* stop-loss prices are), and grow at the end only.
C35_SignalsMatchBreakouts ==
  [][ /\ Len(lm'.past_signals) =
           Len(SelectSeq(lm'.pattern_alerts,
                         LAMBDA a : a.status = "breakout_confirmed"))
      /\ lm'.total_invested = InitialInvestment * Len(lm'.past_signals)
      /\ Len(lm'.pattern_alerts) >= Len(lm.pattern_alerts)
      /\ SubSeq(lm'.pattern_alerts, 1, Len(lm.pattern_alerts)) = lm.pattern_alerts
      /\ Len(lm'.past_signals) >= Len(lm.past_signals)
      /\ \A i \in 1..Len(lm.past_signals) :
           /\ lm'.past_signals[i].contract = lm.past_signals[i].contract
           /\ lm'.past_signals[i].entry_price = lm.past_signals[i].entry_price
           /\ lm'.past_signals[i].target_price = lm.past_signals[i].target_price
           /\ lm'.past_signals[i].stop_loss_price = lm.past_signals[i].stop_loss_price
    ]_vars

\* C35 witness: two breakouts among six alerts, on two contracts, and a pass
\* that has marked the signals since.
C35_Witness ==
  /\ Len(lm.past_signals) = 2
  /\ Len(lm.pattern_alerts) = 6
  /\ lm.past_signals[1].contract # lm.past_signals[2].contract
  /\ lm.past_signals[2].current_price # lm.past_signals[2].entry_price
  /\ lm.total_invested = 2 * InitialInvestment

\* C36 (stop_monitoring, start_monitoring): once stop_monitoring has been
\* called on a monitor, whenever that monitor's loop comes back from its sleep
\* to the loop test, the loop ends: no further sweep begins.
C36_StopEndsTheLoop ==
  [][ ( /\ lm.stop_requested
        /\ lm.pc = "monitor" /\ lm.stage = "sleep"
        /\ lm'.stage # "sleep" )
      => lm'.pc = "done" ]_vars

\* C37 (utils.get_next_candle_time): for a time of day and a positive number
\* of candle minutes the result is 09:15 plus a whole number of candles, lies
\* on the day of the call (0 <= seconds since that day's midnight < 86400),
\* is later than the time of the call and at most one candle later.
C37_NextCandleSameDay ==
  pf.fn = "get_next_candle_time" =>
    LET candle == pf.in.candle_minutes * 60
    IN /\ (pf.out - MarketOpenMinutes * 60) % candle = 0
       /\ 0 <= pf.out /\ pf.out < 86400
       /\ pf.out > pf.in.current_time
       /\ pf.out - pf.in.current_time <= candle

\* C38 (BacktestEngine._get_expiry_dates): the result lists the Thursdays d
\* with start_date <= d <= end_date, each once and in increasing order, also
\* when start_date is a Thursday.
C38_ExpiriesAreTheThursdays ==
  pf.fn = "get_expiry_dates" =>
    LET thursdays == { d \in pf.in.start_date..pf.in.end_date : d % 7 = 3 }
    IN /\ { pf.out[i] : i \in 1..Len(pf.out) } = thursdays
       /\ Len(pf.out) = Cardinality(thursdays)
       /\ \A i \in 1..(Len(pf.out) - 1) : pf.out[i] < pf.out[i + 1]

\* C39 (BacktestEngine._generate_trade): for a positive entry price the
\* quantity is at least 1 and at most 10 lots and quantity * entry price is
\* at most min(max_trade_amount, 20% of the current balance).
C39_QuantityWithinLimits ==
  (pf.fn = "generate_trade" /\ pf.in.entry_price > 0) =>
    /\ 1 <= pf.out.quantity /\ pf.out.quantity <= 10
    /\ pf.out.investment <= MaxTradeAmount
    /\ pf.out.investment * 5 <= pf.in.current_balance

====
